---- MODULE Spec2Model ----
(***************************************************************************)
(* Verification model of distro-dumper.                                    *)
(*                                                                         *)
(*  Spec        the scheduler loop and reconciler of src/dumper.py         *)
(*              (run, __verify_environ, __set_globals, __dump)             *)
(*  SpecWorker  one call of dump() of a source module                      *)
(*              (src/distrodumper/modules)                                 *)
(*  SpecModular the reconciler over the module registry, around            *)
(*              file_helper.download and get_files_in_cache                *)
(*  SpecConfig  configuration validation at startup                        *)
(*              (config_helper.py, validation.py, verify_config)           *)
(*  SpecValidators  one value given to the integer and boolean validators  *)
(*  SpecDownload    one call of file_helper.download                       *)
(*                                                                         *)
(* Strings that the code parses, formats or compares are sequences of      *)
(* one-character strings, so that int(), lower(), split(), startswith()    *)
(* and lexicographic sorting are computed, not assumed.                    *)
(***************************************************************************)
EXTENDS Integers, Sequences, FiniteSets, TLC

\* ------------------------------------------------------------------------
\* Bounds
\* ------------------------------------------------------------------------

\* Longest feed (number of entries) the external source returns in one run.
MaxFeed == 2

\* ------------------------------------------------------------------------
\* Python string helpers
\* ------------------------------------------------------------------------

Digits == {"0", "1", "2", "3", "4", "5", "6", "7", "8", "9"}

DigitVal(c) ==
    CASE c = "0" -> 0 [] c = "1" -> 1 [] c = "2" -> 2 [] c = "3" -> 3
      [] c = "4" -> 4 [] c = "5" -> 5 [] c = "6" -> 6 [] c = "7" -> 7
      [] c = "8" -> 8 [] c = "9" -> 9

\* str.lower() on one character (the letters the model uses).
LowerChar(c) ==
    CASE c = "A" -> "a" [] c = "D" -> "d" [] c = "S" -> "s"
      [] c = "T" -> "t" [] c = "R" -> "r" [] c = "U" -> "u"
      [] c = "E" -> "e" [] c = "F" -> "f" [] c = "L" -> "l"
      [] OTHER -> c

\* str.lower()
Lower(s) == [i \in 1..Len(s) |-> LowerChar(s[i])]

\* str.startswith(prefix)
StartsWith(s, p) == Len(p) <= Len(s) /\ SubSeq(s, 1, Len(p)) = p

\* str.split(sep), as the list of pieces.
RECURSIVE SplitFrom(_, _, _)
SplitFrom(s, sep, cur) ==
    IF s = <<>> THEN <<cur>>
    ELSE IF Head(s) = sep THEN <<cur>> \o SplitFrom(Tail(s), sep, <<>>)
    ELSE SplitFrom(Tail(s), sep, Append(cur, Head(s)))

Split(s, sep) == SplitFrom(s, sep, <<>>)

SeqToSet(s) == {s[i] : i \in 1..Len(s)}

\* Value of a non-empty string of decimal digits.
RECURSIVE DigitsValue(_)
DigitsValue(s) ==
    IF s = <<>> THEN 0
    ELSE 10 * DigitsValue(SubSeq(s, 1, Len(s) - 1)) + DigitVal(s[Len(s)])

AllDigits(s) == s # <<>> /\ \A i \in 1..Len(s) : s[i] \in Digits

\* int(str): an optional sign followed by decimal digits; anything else
\* raises ValueError.
PyIntRaises(s) ==
    IF s # <<>> /\ Head(s) \in {"-", "+"} THEN ~AllDigits(Tail(s))
    ELSE ~AllDigits(s)

PyInt(s) ==
    IF Head(s) = "-" THEN 0 - DigitsValue(Tail(s))
    ELSE IF Head(s) = "+" THEN DigitsValue(Tail(s))
    ELSE DigitsValue(s)

\* ------------------------------------------------------------------------
\* src/dumper.py : environment
\* ------------------------------------------------------------------------

\* The keys __verify_environ requires.
keys == <<"CACHE_DIRECTORY", "DISTRO_PREFIXES", "DUMP_DIRECTORY",
          "DUMP_INTERVAL", "FEED_URL">>

\* Values an environment variable may hold, per key.  An absent key is a key
\* outside the domain of env.
PlainValues == {<<>>, <<"x">>}
PrefixValues == {<<>>, <<"A">>, <<"a", ",", "d">>}
IntervalValues == {<<>>, <<"5">>, <<"0">>, <<"-", "1">>, <<"a">>}

ValuesOf(k) ==
    IF k = "DISTRO_PREFIXES" THEN PrefixValues
    ELSE IF k = "DUMP_INTERVAL" THEN IntervalValues
    ELSE PlainValues

Environments ==
    UNION { { e \in [S -> PlainValues \cup PrefixValues \cup IntervalValues] :
                \A k \in S : e[k] \in ValuesOf(k) }
            : S \in SUBSET SeqToSet(keys) }

\* Titles (= filenames) the feed can carry.
Titles == {<<"a", "1">>, <<"D", "1">>, <<"s", "1">>}

FeedSeqs == UNION {[1..n -> Titles] : n \in 0..MaxFeed}

\* State of one name inside a directory.
\*   absent   no entry
\*   file     a regular file with complete content
\*   partial  a regular file that was created or truncated but not fully written
\*   dir      a directory
EntryKinds == {"absent", "file", "partial", "dir"}

IsFile(e) == e \in {"file", "partial"}
Exists(e) == e # "absent"

VARIABLES
    env,            \* os.environ
    pc,             \* position of run(): start, loop, dump, sleep, terminated
    exit_code,      \* process exit status, -1 while running
    pending,        \* exception in flight while the finally clause runs
    globals,        \* __CACHE_DIR, __DISTRO_PREFIXES, __DUMP_DIR, ...
    feed_items,     \* __dump: filtered items not yet processed
    cached_items,   \* __dump: snapshot of the cache directory
    cache,          \* cache directory: filename -> entry kind
    dump,           \* dump directory: filename -> entry kind
    \* history variables
    loop_entered,   \* the while loop has been entered
    interrupted,    \* a KeyboardInterrupt has been delivered
    slept_after_interrupt, \* a sleep ran to its end after the interrupt
    did_io,         \* a fetch or a filesystem write has happened
    feed,           \* candidates (filtered titles) of the current run
    fetched,        \* filenames fetched in the current run
    failed,         \* filenames whose download failed in the current run
    snap_cache,     \* cache directory when the snapshot was taken
    snap_dump,      \* dump directory when the snapshot was taken
    prev_feed,      \* candidates of the previous run
    prev_fetched,   \* filenames fetched in the previous run
    last_ok,        \* the last finished run completed, every download succeeding
    \* one call of a worker's dump() (specification SpecWorker)
    w_pc,           \* off, ready, done
    w_module,       \* name of the source module
    w_config,       \* its module configuration
    w_pages,        \* what the external source answers, per page
    w_result,       \* what dump() returned or raised
    w_requests,     \* the listing-page requests dump() issued
    \* the reconciler over the module registry (specification SpecModular)
    m_pc,           \* off, idle, module, download, over
    requested_modules, \* Configuration.requested_modules
    modules,        \* Configuration.modules: name -> module configuration
    m_idx,          \* index of the current module in requested_modules
    todo,           \* non-cached candidates of the current module left
    aborted,        \* the exception that ended the run, or none
    m_log,          \* per module of this run: outcome, candidates, counts
    \* configuration validation at startup (specification SpecConfig)
    c_pc,           \* off, ready, verified, generated, done
    c_valid,        \* what verify_environment returned
    c_errors,       \* the variables verify_environment logged an error for
    c_config,       \* the Configuration of generate_from_environment
    c_modules,      \* what verify_module_environments did and returned
    \* one value given to the validators (specification SpecValidators)
    c_val,          \* the value
    c_verdict       \* what each validator returned for it

vars == <<env, pc, exit_code, pending, globals, feed_items, cached_items,
          cache, dump, loop_entered, interrupted, slept_after_interrupt,
          did_io, feed, fetched, failed, snap_cache, snap_dump, prev_feed,
          prev_fetched, last_ok, w_pc, w_module, w_config, w_pages,
          w_result, w_requests, m_pc, requested_modules, modules, m_idx, todo, aborted,
          m_log, c_pc, c_valid, c_errors, c_config, c_modules, c_val,
          c_verdict>>

\* The variables of the scheduler loop and reconciler.
mainvars == <<env, pc, exit_code, pending, globals, feed_items, cached_items,
              cache, dump, loop_entered, interrupted, slept_after_interrupt,
              did_io, feed, fetched, failed, snap_cache, snap_dump,
              prev_feed, prev_fetched, last_ok>>

\* The variables of a worker call.
wvars ==
    <<w_pc, w_module, w_config, w_pages, w_result, w_requests>>

\* The variables of the reconciler over the module registry.
mvars == <<m_pc, requested_modules, modules, m_idx, todo, aborted, m_log>>

\* The variables of configuration validation.
cvars ==
    <<c_pc, c_valid, c_errors, c_config, c_modules, c_val, c_verdict>>

hist == <<feed, fetched, failed, snap_cache, snap_dump, prev_feed,
          prev_fetched, last_ok, wvars, mvars, cvars>>

\* ------------------------------------------------------------------------
\* src/dumper.py : startup
\* ------------------------------------------------------------------------

\* __verify_environ: every key is set and has a non-empty value.
VerifyEnvironOk(e) ==
    \A i \in 1..Len(keys) : keys[i] \in DOMAIN e /\ e[keys[i]] # <<>>

\* __set_globals raises ValueError when int() cannot parse DUMP_INTERVAL.
SetGlobalsRaises(e) == PyIntRaises(e["DUMP_INTERVAL"])

SetGlobals(e) ==
    [CACHE_DIR       |-> e["CACHE_DIRECTORY"],
     DISTRO_PREFIXES |-> SeqToSet(Split(Lower(e["DISTRO_PREFIXES"]), ",")),
     DUMP_DIR        |-> e["DUMP_DIRECTORY"],
     DUMP_INTERVAL   |-> PyInt(e["DUMP_INTERVAL"]),
     FEED_URL        |-> e["FEED_URL"]]

NoGlobals ==
    [CACHE_DIR |-> <<>>, DISTRO_PREFIXES |-> {}, DUMP_DIR |-> <<>>,
     DUMP_INTERVAL |-> 0, FEED_URL |-> <<>>]

\* __feed_item_filter on a title.
FeedItemFilter(title, prefixes) ==
    \E prefix \in prefixes : StartsWith(Lower(title), prefix)

\* The list comprehension of __dump line 125.
RECURSIVE FilterFeed(_, _)
FilterFeed(items, prefixes) ==
    IF items = <<>> THEN <<>>
    ELSE IF FeedItemFilter(Head(items), prefixes)
         THEN <<Head(items)>> \o FilterFeed(Tail(items), prefixes)
         ELSE FilterFeed(Tail(items), prefixes)

\* Variant of CachedItems that tests isdir instead of isfile.
CachedItemsIsDir(dir) == {f \in DOMAIN dir : dir[f] = "dir"}

\* The set comprehension of __dump lines 128-133: regular files only.
CachedItems(dir) == {f \in DOMAIN dir : IsFile(dir[f])}

\* Configuration validation is not modelled.
ConfigOff ==
    /\ c_pc = "off"
    /\ c_valid = FALSE
    /\ c_errors = {}
    /\ c_config = <<>>
    /\ c_modules = <<>>
    /\ c_val = <<>>
    /\ c_verdict = <<>>

\* The reconciler over the module registry is not modelled.
ModularOff ==
    /\ m_pc = "off"
    /\ requested_modules = <<>>
    /\ modules = <<>>
    /\ m_idx = 0
    /\ todo = {}
    /\ aborted = "none"
    /\ m_log = <<>>

\* No worker call is modelled.
WorkerOff ==
    /\ w_pc = "off"
    /\ w_module = "none"
    /\ w_config = <<>>
    /\ w_pages = <<>>
    /\ w_result = <<>>
    /\ w_requests = {}

Init ==
    /\ env \in Environments
    /\ pc = "start"
    /\ exit_code = -1
    /\ pending = "none"
    /\ globals = NoGlobals
    /\ feed_items = <<>>
    /\ cached_items = {}
    /\ cache \in [Titles -> {"absent", "file", "dir"}]
    /\ dump \in [Titles -> {"absent", "file"}]
    /\ cache[<<"s", "1">>] = "absent" /\ dump[<<"s", "1">>] = "absent"
    /\ loop_entered = FALSE
    /\ interrupted = FALSE
    /\ slept_after_interrupt = FALSE
    /\ did_io = FALSE
    /\ feed = {}
    /\ fetched = {}
    /\ failed = {}
    /\ snap_cache = cache
    /\ snap_dump = dump
    /\ prev_feed = {}
    /\ prev_fetched = {}
    /\ last_ok = FALSE
    /\ WorkerOff
    /\ ModularOff
    /\ ConfigOff

\* run(), lines 166-177: verify the configuration, set the globals and enter
\* the loop.  A failed assertion exits with 1; a ValueError of __set_globals
\* is not caught and ends the interpreter with status 1 as well.
Startup ==
    /\ pc = "start"
    /\ IF ~VerifyEnvironOk(env)
       THEN /\ pc' = "terminated"
            /\ exit_code' = 1
            /\ UNCHANGED <<globals, loop_entered>>
       ELSE IF SetGlobalsRaises(env)
       THEN /\ pc' = "terminated"
            /\ exit_code' = 1
            /\ UNCHANGED <<globals, loop_entered>>
       ELSE /\ globals' = SetGlobals(env)
            /\ pc' = "loop"
            /\ loop_entered' = TRUE
            /\ UNCHANGED exit_code
    /\ UNCHANGED <<env, pending, feed_items, cached_items, cache, dump,
                   interrupted, slept_after_interrupt, did_io>>
    /\ UNCHANGED hist

\* ------------------------------------------------------------------------
\* src/dumper.py : __dump
\* ------------------------------------------------------------------------

\* Lines 123-136: fetch the feed, filter it, snapshot the cache directory.
DumpBegin ==
    /\ pc = "loop"
    /\ \E entries \in FeedSeqs :
         /\ feed_items' = FilterFeed(entries, globals.DISTRO_PREFIXES)
         /\ feed' = SeqToSet(feed_items')
    /\ cached_items' = CachedItems(cache)
    /\ snap_cache' = cache
    /\ snap_dump' = dump
    /\ fetched' = {}
    /\ failed' = {}
    /\ prev_feed' = feed
    /\ prev_fetched' = fetched
    /\ did_io' = TRUE
    /\ pc' = "dump"
    /\ UNCHANGED <<env, exit_code, pending, globals, cache, dump,
                   loop_entered, interrupted, slept_after_interrupt, last_ok>>
    /\ UNCHANGED <<wvars, mvars, cvars>>

\* Lines 123-136 raising: the feed cannot be fetched or parsed, or the cache
\* directory cannot be listed.  The exception reaches the handler of run().
DumpBeginRaises ==
    /\ pc = "loop"
    /\ pc' = "sleep"
    /\ pending' = "none"
    /\ did_io' = TRUE
    /\ last_ok' = FALSE
    /\ prev_feed' = {}
    /\ prev_fetched' = {}
    /\ feed' = {}
    /\ fetched' = {}
    /\ failed' = {}
    /\ UNCHANGED <<env, exit_code, globals, feed_items, cached_items, cache,
                   dump, loop_entered, interrupted, slept_after_interrupt,
                   snap_cache, snap_dump>>
    /\ UNCHANGED <<wvars, mvars, cvars>>

\* What one pass of the loop body (lines 142-161) can do for a file that is
\* not in the snapshot.
\*   fetch_fail  scraper.get or raise_for_status raises (line 150-151)
\*   open_fail   open(cache_path, 'wb') raises (line 154)
\*   write_fail  f_obj.write raises after the file was created (line 155)
\*   copy_fail   shutil.copyfile raises before it touched the target
\*   copy_part   shutil.copyfile raises after it created the target
\*   ok
Outcomes == {"fetch_fail", "open_fail", "write_fail", "copy_fail",
             "copy_part", "ok"}

\* Outcomes the filesystem allows: a directory in the way makes open() or
\* copyfile() raise.
Possible(o, f) ==
    /\ cache[f] = "dir" => o \in {"fetch_fail", "open_fail"}
    /\ dump[f] = "dir" => o \in {"fetch_fail", "open_fail", "write_fail",
                                 "copy_fail"}

\* Variant of NotInCache that downloads every candidate.
NotInCacheAlways(filename) == filename \in Titles

\* The guard of line 143.
NotInCache(filename) == filename \notin cached_items

\* One iteration of the for loop of __dump, lines 139-161.
\* Variant of CacheAfter that saves nothing to the cache directory.
CacheUntouched(o, c) == c

\* The cache entry after lines 154-155 under outcome o.
CacheAfter(o, c) ==
    CASE o \in {"fetch_fail", "open_fail"} -> c
      [] o = "write_fail" -> "partial"
      [] OTHER -> "file"

\* The dump entry after lines 158-161 under outcome o.
DumpAfter(o, d) ==
    CASE o = "copy_part" -> "partial"
      [] o = "ok" -> "file"
      [] OTHER -> d

DumpItem ==
    /\ pc = "dump"
    /\ feed_items # <<>>
    /\ LET filename == Head(feed_items) IN
       IF ~NotInCache(filename)
       THEN /\ feed_items' = Tail(feed_items)
            /\ UNCHANGED <<pc, cache, dump, fetched, failed, last_ok>>
       ELSE \E o \in Outcomes :
            /\ Possible(o, filename)
            /\ fetched' = fetched \cup {filename}
            /\ cache' = [cache EXCEPT ![filename] = CacheAfter(o, @)]
            /\ dump' = [dump EXCEPT ![filename] = DumpAfter(o, @)]
            /\ IF o = "ok"
               THEN /\ feed_items' = Tail(feed_items)
                    /\ UNCHANGED <<pc, failed, last_ok>>
               ELSE /\ failed' = failed \cup {filename}
                    /\ pc' = "sleep"
                    /\ last_ok' = FALSE
                    /\ UNCHANGED feed_items
    /\ pending' = "none"
    /\ UNCHANGED <<env, exit_code, globals, cached_items, loop_entered,
                   interrupted, slept_after_interrupt, did_io, feed,
                   snap_cache, snap_dump, prev_feed, prev_fetched>>
    /\ UNCHANGED <<wvars, mvars, cvars>>

\* Variant of DumpEnd in which the loop goes round without the finally
\* clause and its sleep.
DumpEndNoSleep ==
    /\ pc = "dump"
    /\ feed_items = <<>>
    /\ pc' = "loop"
    /\ pending' = "none"
    /\ last_ok' = TRUE
    /\ UNCHANGED <<env, exit_code, globals, feed_items, cached_items, cache,
                   dump, loop_entered, interrupted, slept_after_interrupt,
                   did_io, feed, fetched, failed, snap_cache, snap_dump,
                   prev_feed, prev_fetched>>
    /\ UNCHANGED <<wvars, mvars, cvars>>

\* The for loop is exhausted: __dump returns and the finally clause runs.
DumpEnd ==
    /\ pc = "dump"
    /\ feed_items = <<>>
    /\ pc' = "sleep"
    /\ pending' = "none"
    /\ last_ok' = TRUE
    /\ UNCHANGED <<env, exit_code, globals, feed_items, cached_items, cache,
                   dump, loop_entered, interrupted, slept_after_interrupt,
                   did_io, feed, fetched, failed, snap_cache, snap_dump,
                   prev_feed, prev_fetched>>
    /\ UNCHANGED <<wvars, mvars, cvars>>

\* ------------------------------------------------------------------------
\* src/dumper.py : the loop of run()
\* ------------------------------------------------------------------------

\* time.sleep raises ValueError for a negative length.
SleepRaises(interval) == interval < 0

\* KeyboardInterrupt while __dump runs (lines 182-184): sys.exit(0) raises
\* SystemExit, which stays in flight while the finally clause runs.
InterruptInDump ==
    /\ pc \in {"loop", "dump"}
    /\ interrupted' = TRUE
    /\ pending' = "SystemExit0"
    /\ pc' = "sleep"
    /\ last_ok' = FALSE
    /\ UNCHANGED <<env, exit_code, globals, feed_items, cached_items, cache,
                   dump, loop_entered, slept_after_interrupt, did_io, feed,
                   fetched, failed, snap_cache, snap_dump, prev_feed,
                   prev_fetched>>
    /\ UNCHANGED <<wvars, mvars, cvars>>

\* KeyboardInterrupt outside the try block (startup code, or the finally
\* clause with its sleep): nothing catches it, and the interpreter ends the
\* process with the status of an uncaught SIGINT.
SIGINT_STATUS == 130

InterruptOutsideTry ==
    /\ pc \in {"start", "sleep"}
    /\ interrupted' = TRUE
    /\ pc' = "terminated"
    /\ exit_code' = SIGINT_STATUS
    /\ pending' = "none"
    /\ UNCHANGED <<env, globals, feed_items, cached_items, cache, dump,
                   loop_entered, slept_after_interrupt, did_io>>
    /\ UNCHANGED hist

\* The finally clause, lines 188-190: sleep, then either let the exception in
\* flight out or go round the loop.
Sleep ==
    /\ pc = "sleep"
    /\ IF SleepRaises(globals.DUMP_INTERVAL)
       THEN /\ pc' = "terminated"
            /\ exit_code' = 1
            /\ pending' = "none"
            /\ UNCHANGED slept_after_interrupt
       ELSE IF pending = "SystemExit0"
       THEN /\ pc' = "terminated"
            /\ exit_code' = 0
            /\ pending' = "none"
            /\ slept_after_interrupt' = TRUE
       ELSE /\ pc' = "loop"
            /\ UNCHANGED <<exit_code, pending, slept_after_interrupt>>
    /\ UNCHANGED <<env, globals, feed_items, cached_items, cache, dump,
                   loop_entered, interrupted, did_io>>
    /\ UNCHANGED hist

Next ==
    \/ Startup
    \/ DumpBegin
    \/ DumpBeginRaises
    \/ DumpItem
    \/ DumpEnd
    \/ InterruptInDump
    \/ InterruptOutsideTry
    \/ Sleep

Spec == Init /\ [][Next]_vars

TypeOK ==
    /\ pc \in {"start", "loop", "dump", "sleep", "terminated"}
    /\ exit_code \in {-1, 0, 1, SIGINT_STATUS}
    /\ pending \in {"none", "SystemExit0"}
    /\ cache \in [Titles -> EntryKinds]
    /\ dump \in [Titles -> EntryKinds]

\* ------------------------------------------------------------------------
\* Source modules (src/distrodumper/modules): inputs
\* ------------------------------------------------------------------------

\* Bound: longest list of anchors on a listing page.
MaxLinks == 3

\* Bound: longest list of anchors on a page of the other modules.
MaxLinksSmall == 2

\* Bound: most URLs found in the raw HTML besides the anchors.
MaxInline == 1

\* An anchor of a listing page is a record; kind tells what its href is.
\*   nohref    <a> without href attribute
\*   other     an href that none of the module patterns matches
NoHref == [kind |-> "nohref"]
OtherLink == [kind |-> "other"]

\* What link.get('href') returns for an anchor without href.
None == [kind |-> "None"]
\* What link.get("href", "") returns for an anchor without href.
EmptyHref == [kind |-> "empty"]

\* A response of requests.get / scraper.get: either the call raises exc, or
\* it returns a response with a status code and the anchors of the page.
FailedResponses ==
    {[exc |-> "Timeout", status_code |-> 0, anchors |-> <<>>, inline |-> <<>>],
     [exc |-> "ConnectionError", status_code |-> 0, anchors |-> <<>>,
      inline |-> <<>>],
     [exc |-> "none", status_code |-> 500, anchors |-> <<>>, inline |-> <<>>]}

SeqsUpTo(S, n) == UNION {[1..k -> S] : k \in 0..n}

OkResponses(anchorSet, n) ==
    {[exc |-> "none", status_code |-> 200, anchors |-> a, inline |-> <<>>] :
        a \in SeqsUpTo(anchorSet, n)}

\* resp.raise_for_status()
RaiseForStatus(resp) == resp.status_code >= 400

\* Results of a call of dump(): a returned dict or a raised exception.
Return(v) == [kind |-> "return", value |-> v, exc |-> "none"]
Raise(e) == [kind |-> "raise", value |-> <<>>, exc |-> e]

\* dict(): a function with an empty domain.
EmptyDict == <<>>

\* d[k] = v
Put(d, k, v) == [x \in DOMAIN d \cup {k} |-> IF x = k THEN v ELSE d[x]]

\* Character order of str comparison, for the characters of the keys.
Alphabet == <<"-", ".", "0", "1", "2", "3", "4", "5", "6", "7", "8", "9",
              "_", "a", "c", "e", "h", "i", "l", "n", "o", "r", "t", "u",
              "x">>

CharOrd(c) == CHOOSE i \in 1..Len(Alphabet) : Alphabet[i] = c

\* a < b for two str values.
RECURSIVE LexLess(_, _)
LexLess(a, b) ==
    IF b = <<>> THEN FALSE
    ELSE IF a = <<>> THEN TRUE
    ELSE IF Head(a) = Head(b) THEN LexLess(Tail(a), Tail(b))
    ELSE CharOrd(Head(a)) < CharOrd(Head(b))

\* ------------------------------------------------------------------------
\* src/distrodumper/modules/arch.py
\* ------------------------------------------------------------------------

\* Release dates on the Arch release page, as the digit groups the regular
\* expression of _get_download_links captures: (\d{4}), (\d{2}), (\d{2}).
ArchDates ==
    {[year |-> <<"2", "0", "2", "4">>, major |-> <<"1", "2">>,
      minor |-> <<"0", "1">>],
     [year |-> <<"2", "0", "2", "5">>, major |-> <<"0", "7">>,
      minor |-> <<"0", "1">>],
     [year |-> <<"2", "0", "2", "5">>, major |-> <<"0", "7">>,
      minor |-> <<"1", "5">>],
     [year |-> <<"2", "0", "2", "5">>, major |-> <<"0", "8">>,
      minor |-> <<"0", "1">>]}

\* An href in which the regular expression finds
\* archlinux-<year>.<major>.<minor>-x86_64.iso
ArchIso(d) ==
    [kind |-> "arch_iso", year |-> d.year, major |-> d.major,
     minor |-> d.minor]

ArchAnchors == {NoHref, OtherLink} \cup {ArchIso(d) : d \in ArchDates}

\* _FILENAME_FORMAT.format(year, major, minor)
ArchFilename(year, major, minor) ==
    <<"a", "r", "c", "h", "l", "i", "n", "u", "x", "-">> \o year \o <<"-">>
    \o major \o <<"-">> \o minor
    \o <<"-", "x", "8", "6", "_", "6", "4", ".", "t", "o", "r", "r", "e",
         "n", "t">>

\* _TORRENT_FORMAT.format(year, major, minor)
ArchTorrentUrl(year, major, minor) ==
    [base |-> "https://archlinux.org/releng/releases/",
     version |-> year \o <<".">> \o major \o <<".">> \o minor,
     tail |-> "/torrent/"]

\* ArchWorker.dump lines 99-101: link.get('href') of every anchor.
ArchLinks(anchors) ==
    [i \in 1..Len(anchors) |->
        IF anchors[i].kind = "nohref" THEN None ELSE anchors[i]]

\* regex.search(link) raises TypeError when link is None.
ArchGetDownloadLinksRaises(links) ==
    \E i \in 1..Len(links) : links[i] = None

\* ArchWorker._get_download_links, lines 124-155.
RECURSIVE ArchGetDownloadLinksFrom(_, _)
ArchGetDownloadLinksFrom(links, result) ==
    IF links = <<>> THEN result
    ELSE LET link == Head(links) IN
         IF link.kind # "arch_iso"
         THEN ArchGetDownloadLinksFrom(Tail(links), result)
         ELSE ArchGetDownloadLinksFrom(Tail(links),
                  Put(result,
                      ArchFilename(link.year, link.major, link.minor),
                      ArchTorrentUrl(link.year, link.major, link.minor)))

ArchGetDownloadLinks(links) == ArchGetDownloadLinksFrom(links, EmptyDict)

\* Lines 113-115: keys.sort(reverse=True); keys[0].
HighestVersion(candidates) ==
    CHOOSE k \in DOMAIN candidates :
        \A j \in DOMAIN candidates : j = k \/ LexLess(j, k)

\* ArchWorker.dump, lines 73-121.
ArchDump(config, resp) ==
    IF resp.exc # "none" THEN Raise(resp.exc)
    ELSE IF resp.status_code # 200 THEN Raise("ModuleExternalError")
    ELSE LET links == ArchLinks(resp.anchors) IN
         IF ArchGetDownloadLinksRaises(links) THEN Raise("TypeError")
         ELSE LET candidates == ArchGetDownloadLinks(links) IN
              IF ~config.get_all
              THEN IF DOMAIN candidates = {} THEN Raise("IndexError")
                   ELSE LET highest_version == HighestVersion(candidates) IN
                        Return(highest_version :>
                                   candidates[highest_version])
              ELSE Return(candidates)

ArchConfigs == {[get_all |-> g, get_available |-> FALSE] : g \in BOOLEAN}

\* ------------------------------------------------------------------------
\* src/distrodumper/modules/example.py
\* ------------------------------------------------------------------------

\* ExampleWorker.dump, lines 55-65.
ExampleDump(config) == Return(EmptyDict)

\* ------------------------------------------------------------------------
\* src/distrodumper/modules/debian.py
\* ------------------------------------------------------------------------

\* An href the regular expression of _get_download_links matches: flavor and
\* arch are its first and last group, href is the string itself.  The ".*"
\* of the expression also matches "/" and "..".
DebianTorrent(flavor, arch, href) ==
    [kind |-> "debian", flavor |-> flavor, arch |-> arch, href |-> href]

DebianPlainAnchors ==
    {NoHref, OtherLink,
     DebianTorrent("", "amd64", <<"d", "e", "b", "-", "1", "2">>),
     DebianTorrent("edu", "amd64",
                   <<"d", "e", "b", "-", "e", "d", "u", "-", "1", "2">>)}

\* The anchors of an index page: the plain ones and one whose link text
\* holds a path separator and a "..", which the expression matches too.
DebianAnchors ==
    DebianPlainAnchors
    \cup {DebianTorrent("", "amd64",
                       <<"d", "e", "b", "-", "/", ".", ".", "/", "x">>)}

DebianConfigs ==
    {[requested_archs |-> a, requested_media |-> <<"cd">>,
      extra_flavors |-> x] :
        a \in {<<"amd64">>, <<"amd64", "arm64">>}, x \in {<<>>, <<"edu">>}}

\* The (arch, media) pairs in the order of the two for loops, lines 145-146.
DebianPairs(config) ==
    LET na == Len(config.requested_archs)
        nm == Len(config.requested_media)
    IN [i \in 1..(na * nm) |->
          <<config.requested_archs[((i - 1) \div nm) + 1],
            config.requested_media[((i - 1) % nm) + 1]>>]

\* _TORRENT_URL_FORMAT.format(arch, media, filename)
DebianTorrentUrl(arch, media, filename) ==
    [base |-> "https://cdimage.debian.org/debian-cd/current/",
     arch |-> arch, media |-> media, filename |-> filename]

\* DebianWorker.dump lines 167-169: link.get('href') of every anchor.
DebianLinks(anchors) ==
    [i \in 1..Len(anchors) |->
        IF anchors[i].kind = "nohref" THEN None ELSE anchors[i]]

\* regex.search(link) raises TypeError when link is None.
DebianGetDownloadLinksRaises(links) ==
    \E i \in 1..Len(links) : links[i] = None

\* DebianWorker._get_download_links, lines 183-219.  The name arch is
\* rebound to the last group of the match (line 207) before the URL is
\* formatted.
RECURSIVE DebianGetDownloadLinksFrom(_, _, _, _)
DebianGetDownloadLinksFrom(config, media, links, result) ==
    IF links = <<>> THEN result
    ELSE LET link == Head(links) IN
         IF link.kind # "debian"
         THEN DebianGetDownloadLinksFrom(config, media, Tail(links), result)
         ELSE IF link.flavor # ""
                 /\ link.flavor \notin SeqToSet(config.extra_flavors)
         THEN DebianGetDownloadLinksFrom(config, media, Tail(links), result)
         ELSE DebianGetDownloadLinksFrom(config, media, Tail(links),
                  Put(result, link.href,
                      DebianTorrentUrl(link.arch, media, link.href)))

\* candidates.update(_candidates)
Update(d, e) == [x \in DOMAIN d \cup DOMAIN e |->
                    IF x \in DOMAIN e THEN e[x] ELSE d[x]]

\* DebianWorker.dump, lines 135-180; pages maps each (arch, media) pair to
\* the response of its index.
RECURSIVE DebianDumpFrom(_, _, _, _)
DebianDumpFrom(config, pages, pairs, candidates) ==
    IF pairs = <<>> THEN Return(candidates)
    ELSE LET resp == pages[Head(pairs)]
             links == DebianLinks(resp.anchors)
         IN IF resp.exc # "none" \/ RaiseForStatus(resp)
            THEN Raise("ModuleExternalError")
            ELSE IF DebianGetDownloadLinksRaises(links)
            THEN Raise("TypeError")
            ELSE DebianDumpFrom(config, pages, Tail(pairs),
                     Update(candidates,
                            DebianGetDownloadLinksFrom(
                                config, Head(pairs)[2], links, EmptyDict)))

DebianDump(config, pages) ==
    DebianDumpFrom(config, pages, DebianPairs(config), EmptyDict)

\* ------------------------------------------------------------------------
\* src/distrodumper/modules/manjaro.py
\* ------------------------------------------------------------------------

\* An href the regular expression of _get_download_links matches: flavor and
\* version are the groups of the directory part, flavor_2 and version_2 the
\* groups of the file name.
ManjaroTorrent(flavor, version, flavor_2, version_2) ==
    [kind |-> "manjaro", flavor |-> flavor, version |-> version,
     flavor_2 |-> flavor_2, version_2 |-> version_2]

ManjaroAnchors ==
    {NoHref, OtherLink,
     ManjaroTorrent("kde", "25.0.1", "kde", "25.0.1"),
     ManjaroTorrent("gnome", "25.0.1", "gnome", "25.0.1"),
     ManjaroTorrent("kde", "25.0.1", "xfce", "25.0.1")}

ManjaroConfigs ==
    {[requested_flavors |-> f] : f \in {<<"kde">>, <<"kde", "gnome">>}}

\* ManjaroWorker.dump lines 115-117: link.get("href", "") of every anchor.
ManjaroLinks(anchors) ==
    [i \in 1..Len(anchors) |->
        IF anchors[i].kind = "nohref" THEN EmptyHref ELSE anchors[i]]

\* os.path.basename(urlparse(link).path) of a matching link.
ManjaroFilename(link) ==
    [file |-> "manjaro", flavor |-> link.flavor_2,
     version |-> link.version_2]

\* ManjaroWorker._get_download_links, lines 126-170.
RECURSIVE ManjaroGetDownloadLinksFrom(_, _, _)
ManjaroGetDownloadLinksFrom(config, links, result) ==
    IF links = <<>> THEN result
    ELSE LET link == Head(links) IN
         IF link.kind # "manjaro"
         THEN ManjaroGetDownloadLinksFrom(config, Tail(links), result)
         ELSE IF link.flavor # link.flavor_2 \/ link.version # link.version_2
         THEN ManjaroGetDownloadLinksFrom(config, Tail(links), result)
         ELSE IF link.flavor \notin SeqToSet(config.requested_flavors)
         THEN ManjaroGetDownloadLinksFrom(config, Tail(links), result)
         ELSE ManjaroGetDownloadLinksFrom(config, Tail(links),
                  Put(result, ManjaroFilename(link), link))

\* ManjaroWorker.dump, lines 84-123.
ManjaroDump(config, resp) ==
    IF resp.exc # "none" \/ RaiseForStatus(resp)
    THEN Raise("ModuleExternalError")
    ELSE Return(ManjaroGetDownloadLinksFrom(
                    config, ManjaroLinks(resp.anchors), EmptyDict))

\* ------------------------------------------------------------------------
\* src/distrodumper/modules/rpios.py
\* ------------------------------------------------------------------------

\* An href of the Raspberry Pi OS page: torrent tells whether it ends with
\* ".torrent", image is the image name it contains ("" for none).
RPiLink(torrent, image) ==
    [kind |-> "rpi", torrent |-> torrent, image |-> image]

RPiAnchors ==
    {NoHref, OtherLink,
     RPiLink(TRUE, "raspios_arm64"), RPiLink(TRUE, "rpd_x86"),
     RPiLink(FALSE, "raspios_arm64")}

RPiConfigs ==
    {[requested_images |-> f] :
        f \in {<<"raspios_arm64">>, <<"raspios_arm64", "rpd_x86">>}}

\* RPiOsWorker.dump lines 113-115: link.get("href", "") of every anchor.
RPiLinks(anchors) ==
    [i \in 1..Len(anchors) |->
        IF anchors[i].kind = "nohref" THEN EmptyHref ELSE anchors[i]]

\* os.path.basename(urlparse(link).path)
RPiFilename(link) == [file |-> "rpi", image |-> link.image]

\* RPiOsWorker._get_download_links, lines 124-146.
RECURSIVE RPiGetDownloadLinksFrom(_, _, _)
RPiGetDownloadLinksFrom(config, links, result) ==
    IF links = <<>> THEN result
    ELSE LET link == Head(links) IN
         IF link.kind = "rpi" /\ link.torrent
            /\ link.image \in SeqToSet(config.requested_images)
         THEN RPiGetDownloadLinksFrom(config, Tail(links),
                  Put(result, RPiFilename(link), link))
         ELSE RPiGetDownloadLinksFrom(config, Tail(links), result)

\* RPiOsWorker.dump, lines 81-121.
RPiDump(config, resp) ==
    IF resp.exc # "none" \/ RaiseForStatus(resp)
    THEN Raise("ModuleExternalError")
    ELSE Return(RPiGetDownloadLinksFrom(
                    config, RPiLinks(resp.anchors), EmptyDict))

\* ------------------------------------------------------------------------
\* src/distrodumper/modules/cachyos.py
\* ------------------------------------------------------------------------

\* An href (or an inline URL) of the CachyOS downloads page.
\*   scheme   scheme of urljoin(index_url, href): a relative href inherits
\*            https from the index URL
\*   torrent  the path ends with ".torrent" (after the trim of line 125)
\*   words    the edition names that occur in the lower-cased URL
\*   file     basename of the path
\*   host     the host of the URL; none for a relative href
CachyUrl(scheme, torrent, words, file) ==
    [kind |-> "url", scheme |-> scheme, host |-> "cdn.cachyos.org",
     torrent |-> torrent, words |-> words, file |-> file]

\* A relative href ("/files/<file>"): no scheme, no host.
CachyRelative(torrent, words, file) ==
    [kind |-> "relative", scheme |-> "", host |-> "none",
     torrent |-> torrent, words |-> words, file |-> file]

\* An absolute https href with text after the first ".torrent".
CachyPolluted(words, file) ==
    [kind |-> "polluted", scheme |-> "https", host |-> "cdn.cachyos.org",
     torrent |-> FALSE, words |-> words, file |-> file]

\* index_url, line 86: scheme and host of the downloads page.
CachyIndexUrl == [scheme |-> "https", host |-> "cachyos.org"]

\* Variant of UrlJoin that leaves a relative href as it is.
UrlJoinNothing(base, a) == a

\* urljoin(index_url, href), line 119.
UrlJoin(base, a) ==
    IF a.kind = "relative"
    THEN [a EXCEPT !.kind = "url", !.scheme = base.scheme,
                   !.host = base.host]
    ELSE a

\* Lines 122-125: the URL is cut after its first ".torrent".
CachyTrim(u) ==
    IF u.kind = "polluted"
    THEN [u EXCEPT !.kind = "url", !.torrent = TRUE]
    ELSE u

CachyAnchors ==
    {NoHref, OtherLink,
     CachyUrl("https", TRUE, {"desktop"}, "cachyos-desktop.torrent"),
     CachyUrl("https", TRUE, {"handheld"}, "cachyos-handheld.torrent"),
     CachyUrl("https", FALSE, {"desktop"}, "cachyos-desktop.iso"),
     CachyUrl("magnet", FALSE, {"desktop"}, ""),
     CachyRelative(TRUE, {"desktop"}, "cachyos-desktop-rel.torrent"),
     CachyRelative(FALSE, {"desktop"}, "cachyos-desktop-rel.iso"),
     CachyPolluted({"handheld"}, "cachyos-handheld-cut.torrent")}

\* URLs the regular expression of line 140 can find in the raw HTML.
\* The last one ends in .torrent inside its query string: the basename of
\* its path is no .torrent file.
CachyInline ==
    {CachyUrl("https", TRUE, {"desktop"}, "cachyos-desktop.torrent"),
     CachyUrl("https", TRUE, {"handheld"}, "cachyos-handheld.torrent"),
     CachyUrl("https", FALSE, {"desktop"}, "get")}

CachyConfigs ==
    {[requested_editions |-> e] :
        e \in {<<"desktop">>, <<"handheld">>, <<"desktop", "handheld">>}}

\* Lines 112-136: the anchors that are kept as http(s) .torrent URLs.
CachyFoundInAnchors(anchors) ==
    LET hrefs == {anchors[i] : i \in {j \in 1..Len(anchors) :
                     anchors[j].kind \in {"url", "relative", "polluted"}}}
        absolute == {CachyTrim(UrlJoin(CachyIndexUrl, a)) : a \in hrefs}
    IN {u \in absolute :
           /\ u.kind = "url"
           /\ u.scheme \in {"http", "https"}
           /\ u.torrent}

\* Lines 138-148: the URLs found in the raw HTML.
CachyFoundInline(inline) == SeqToSet(inline)

\* Variant of CachyEditionRequested that lets every edition through.
CachyEditionAlways(requested, u) == TRUE

\* Line 159: no edition is requested or one of them occurs in the label.
CachyEditionRequested(requested, u) ==
    requested = {} \/ (u.words \cap requested) # {}

\* Lines 150-161: drop what is no .torrent file, filter by requested
\* edition, key by file name.
CachyResults(config, found_urls) ==
    LET requested == SeqToSet(config.requested_editions)
        kept == {u \in found_urls :
                    u.torrent /\ CachyEditionRequested(requested, u)}
    IN [f \in {u.file : u \in kept} |->
           CHOOSE u \in kept : u.file = f]

\* CachyOsWorker.dump, lines 73-171.
CachyDump(config, resp) ==
    IF resp.exc # "none" \/ RaiseForStatus(resp)
    THEN Return(EmptyDict)
    ELSE Return(CachyResults(config,
                    CachyFoundInAnchors(resp.anchors)
                    \cup CachyFoundInline(resp.inline)))


\* ------------------------------------------------------------------------
\* One call of dump() of a source module (specification SpecWorker)
\* ------------------------------------------------------------------------

Modules == {"arch", "cachyos", "debian", "example", "manjaro", "rpios"}

\* The valid configurations of a module.
ConfigsOf(m) ==
    CASE m = "arch" -> ArchConfigs
      [] m = "cachyos" -> CachyConfigs
      [] m = "debian" -> DebianConfigs
      [] m = "example" -> {<<>>}
      [] m = "manjaro" -> ManjaroConfigs
      [] m = "rpios" -> RPiConfigs

\* The pages a module fetches under a configuration.
PageKeys(m, config) ==
    CASE m = "debian" -> SeqToSet(DebianPairs(config))
      [] m = "example" -> {}
      [] OTHER -> {"index"}

\* What the external source can answer for one page of a module.
ResponsesOf(m) ==
    FailedResponses \cup
    CASE m = "arch" -> OkResponses(ArchAnchors, MaxLinks)
      [] m = "cachyos" ->
           {[r EXCEPT !.inline = i] :
               r \in OkResponses(CachyAnchors, MaxLinksSmall),
               i \in SeqsUpTo(CachyInline, MaxInline)}
      [] m = "debian" -> OkResponses(DebianAnchors, MaxLinksSmall)
      [] m = "manjaro" -> OkResponses(ManjaroAnchors, MaxLinksSmall)
      [] m = "rpios" -> OkResponses(RPiAnchors, MaxLinksSmall)
      [] OTHER -> {}

\* worker.dump() of module m.
DumpOf(m, config, pages) ==
    CASE m = "arch" -> ArchDump(config, pages["index"])
      [] m = "cachyos" -> CachyDump(config, pages["index"])
      [] m = "debian" -> DebianDump(config, pages)
      [] m = "example" -> ExampleDump(config)
      [] m = "manjaro" -> ManjaroDump(config, pages["index"])
      [] m = "rpios" -> RPiDump(config, pages["index"])

\* The pages the loops of DebianWorker.dump request: the pairs up to the
\* first one whose request or parsing raises.
RECURSIVE DebianRequestedFrom(_, _)
DebianRequestedFrom(pages, pairs) ==
    IF pairs = <<>> THEN {}
    ELSE LET resp == pages[Head(pairs)]
         IN {Head(pairs)} \cup
            IF \/ resp.exc # "none"
               \/ RaiseForStatus(resp)
               \/ DebianGetDownloadLinksRaises(DebianLinks(resp.anchors))
            THEN {}
            ELSE DebianRequestedFrom(pages, Tail(pairs))

\* The pages dump() of module m requests.
RequestedPages(m, config, pages) ==
    CASE m = "debian" -> DebianRequestedFrom(pages, DebianPairs(config))
      [] m = "example" -> {}
      [] OTHER -> {"index"}

\* The client whose get() fetches the listing page.
RequestClient(m) == IF m = "rpios" THEN "cloudscraper" ELSE "requests"

\* The keyword arguments of the call of get().
RequestKeywords(m) ==
    CASE m = "arch" -> {}
      [] m = "cachyos" -> {"allow_redirects", "timeout"}
      [] OTHER -> {"allow_redirects"}

\* The headers the call of get() passes: no module passes a headers
\* argument.
RequestHeaders(m) == {}

\* The listing-page requests dump() of module m issues.
RequestsOf(m, config, pages) ==
    {[page |-> k, client |-> RequestClient(m),
      keywords |-> RequestKeywords(m), headers |-> RequestHeaders(m)] :
        k \in RequestedPages(m, config, pages)}

InitWorker ==
    /\ w_pc = "ready"
    /\ w_module \in Modules
    /\ w_config \in ConfigsOf(w_module)
    /\ w_pages \in [PageKeys(w_module, w_config) -> ResponsesOf(w_module)]
    /\ w_result = <<>>
    /\ w_requests = {}
    /\ env = <<>>
    /\ pc = "off"
    /\ exit_code = -1
    /\ pending = "none"
    /\ globals = NoGlobals
    /\ feed_items = <<>>
    /\ cached_items = {}
    /\ cache = <<>>
    /\ dump = <<>>
    /\ loop_entered = FALSE
    /\ interrupted = FALSE
    /\ slept_after_interrupt = FALSE
    /\ did_io = FALSE
    /\ feed = {}
    /\ fetched = {}
    /\ failed = {}
    /\ snap_cache = <<>>
    /\ snap_dump = <<>>
    /\ prev_feed = {}
    /\ prev_fetched = {}
    /\ last_ok = FALSE
    /\ ModularOff
    /\ ConfigOff

\* The worker runs dump() to its end.
WorkerDump ==
    /\ w_pc = "ready"
    /\ w_result' = DumpOf(w_module, w_config, w_pages)
    /\ w_requests' = RequestsOf(w_module, w_config, w_pages)
    /\ w_pc' = "done"
    /\ UNCHANGED <<w_module, w_config, w_pages>>
    /\ UNCHANGED <<mainvars, mvars, cvars>>

NextWorker == WorkerDump

SpecWorker == InitWorker /\ [][NextWorker]_vars

\* ------------------------------------------------------------------------
\* src/distrodumper/file_helper.py
\* ------------------------------------------------------------------------

\* get_files_in_cache, lines 35-56: the names in the cache directory for
\* which os.path.isfile holds.
GetFilesInCache(dir) == {f \in DOMAIN dir : IsFile(dir[f])}

\* How one call of download() can go:
\*   open_fail   open(cache_filepath, "wb") raises
\*   fetch_fail  scraper.get raises or raise_for_status raises
\*   write_fail  f_obj.write raises
\*   copy_fail   shutil.copy raises before it has created the target
\*   copy_part   shutil.copy raises after it has created the target
\*   ok          nothing raises
DownloadOutcomes ==
    {"open_fail", "fetch_fail", "write_fail", "copy_fail", "copy_part", "ok"}

\* open(..., "wb") of a directory always raises.
DownloadPossible(c, o) == (c = "dir") => (o = "open_fail")

\* os.remove(path) raises when path is a directory.
RemoveRaises(e) == e = "dir"

\* What download() leaves of the cache entry c and the dump entry d of its
\* filename under outcome o, and what it returns; raised: an exception left
\* download() from one of its except clauses.
Download(c, d, o) ==
    IF o = "open_fail"
    THEN \* lines 95-100; the entry is as it was before the call
         IF ~Exists(c)
         THEN [cache |-> c, dump |-> d, ret |-> FALSE, raised |-> FALSE]
         ELSE IF RemoveRaises(c)
         THEN [cache |-> c, dump |-> d, ret |-> FALSE, raised |-> TRUE]
         ELSE [cache |-> "absent", dump |-> d, ret |-> FALSE,
               raised |-> FALSE]
    ELSE IF o \in {"fetch_fail", "write_fail"}
    THEN \* lines 95-100; open() has created or truncated the cache file
         [cache |-> "absent", dump |-> d, ret |-> FALSE, raised |-> FALSE]
    ELSE IF o \in {"copy_fail", "copy_part"}
    THEN \* lines 108-115
         LET target == IF o = "copy_part" /\ d # "dir" THEN "partial" ELSE d
         IN IF ~Exists(target)
            THEN [cache |-> "absent", dump |-> target, ret |-> FALSE,
                  raised |-> FALSE]
            ELSE IF RemoveRaises(target)
            THEN [cache |-> "absent", dump |-> target, ret |-> FALSE,
                  raised |-> TRUE]
            ELSE [cache |-> "absent", dump |-> "absent", ret |-> FALSE,
                  raised |-> FALSE]
    ELSE \* line 118; shutil.copy into a directory leaves the directory
         [cache |-> "file", dump |-> IF d = "dir" THEN d ELSE "file",
          ret |-> TRUE, raised |-> FALSE]

\* ------------------------------------------------------------------------
\* The reconciler over the module registry (specification SpecModular)
\* ------------------------------------------------------------------------

\* Bound: longest list of anchors on a page during a reconciler run.
MaxLinksRun == 2

\* src/distrodumper/config_helper.py, __AVAILABLE_MODULES, lines 37-43.
AvailableModules == {"arch", "example", "debian"}

\* The release dates on the Arch release page during a reconciler run.
RunArchDates ==
    {d \in ArchDates : d.year = <<"2", "0", "2", "5">> /\ d.major = <<"0", "7">>}

\* The anchors of a page of module m during a reconciler run; the
\* reconciler takes a filename as an opaque key.
RunAnchors(m) ==
    CASE m = "arch" -> {NoHref, OtherLink} \cup {ArchIso(d) : d \in RunArchDates}
      [] m = "debian" -> DebianPlainAnchors
      [] OTHER -> {}

\* Every filename a registered module can produce in a reconciler run.
ModuleFiles ==
    {ArchFilename(d.year, d.major, d.minor) : d \in RunArchDates}
    \cup {a.href : a \in {x \in DebianPlainAnchors : x.kind = "debian"}}

\* generate_from_environment, line 168: the names of DUMPER_MODULES in the
\* order they were given, each a registered module.
RequestedLists ==
    {s \in UNION {[1..k -> AvailableModules] : k \in 1..3} :
        \A i, j \in 1..Len(s) : i # j => s[i] # s[j]}

\* The module configurations of a reconciler run: those of the module that
\* fetch one page.
RunConfigsOf(m) ==
    {c \in ConfigsOf(m) : Cardinality(PageKeys(m, c)) <= 1}

\* populate_module_configurations, lines 223-239.
ModuleConfigurations(requested) ==
    {c \in [SeqToSet(requested) ->
               UNION {RunConfigsOf(m) : m \in AvailableModules}] :
        \A m \in SeqToSet(requested) : c[m] \in RunConfigsOf(m)}

\* What the external source can answer for one page during a run.
RunResponsesOf(m) ==
    FailedResponses \cup OkResponses(RunAnchors(m), MaxLinksRun)

\* The record kept of a module in a run.
NotInvoked ==
    [outcome |-> "none", candidates |-> {}, offered |-> {}, attempted |-> {},
     failed |-> {}, reported |-> FALSE, n_downloaded |-> 0,
     n_duplicate |-> 0, n_failed |-> 0]

\* The filename that can be a directory of the cache when the process
\* starts.
DirSeed == ArchFilename(<<"2", "0", "2", "5">>, <<"0", "7">>, <<"1", "5">>)

\* The filename that can be in the dump directory only when the process
\* starts.
DumpOnlySeed == <<"d", "e", "b", "-", "1", "2">>

\* The filenames that can be in the directories when the process starts.
SeedFiles == {DirSeed, DumpOnlySeed}

InitModular ==
    /\ m_pc = "idle"
    /\ requested_modules \in RequestedLists
    /\ modules \in ModuleConfigurations(requested_modules)
    /\ m_idx = 0
    /\ todo = {}
    /\ aborted = "none"
    /\ m_log = [m \in SeqToSet(requested_modules) |-> NotInvoked]
    /\ cache \in [ModuleFiles -> {"absent", "file", "dir"}]
    /\ dump \in [ModuleFiles -> {"absent", "file"}]
    /\ \A f \in ModuleFiles :
          /\ cache[f] = "dir" => (dump[f] = "absent" /\ f = DirSeed)
          /\ cache[f] = "file" => dump[f] = "file"
          /\ (cache[f] = "absent" /\ dump[f] = "file") => f = DumpOnlySeed
          /\ f \notin SeedFiles =>
                 (cache[f] = "absent" /\ dump[f] = "absent")
    /\ cached_items = {}
    /\ snap_cache = cache
    /\ snap_dump = dump
    /\ fetched = {}
    /\ failed = {}
    /\ env = <<>>
    /\ pc = "off"
    /\ exit_code = -1
    /\ pending = "none"
    /\ globals = NoGlobals
    /\ feed_items = <<>>
    /\ loop_entered = FALSE
    /\ interrupted = FALSE
    /\ slept_after_interrupt = FALSE
    /\ did_io = FALSE
    /\ feed = {}
    /\ prev_feed = {}
    /\ prev_fetched = {}
    /\ last_ok = FALSE
    /\ WorkerOff
    /\ ConfigOff

\* Variant of CountDuplicate that counts every candidate.
CountDuplicateAll(candidates, cached_files) == Cardinality(candidates)

\* Step 3: the candidates that are in the snapshot count as duplicate.
CountDuplicate(candidates, cached_files) ==
    Cardinality(candidates \cap cached_files)

\* Step 1: the snapshot of the cache, taken once per run.
RunBegin ==
    /\ m_pc \in {"idle", "over"}
    /\ m_pc' = "module"
    /\ m_idx' = 1
    /\ todo' = {}
    /\ aborted' = "none"
    /\ m_log' = [m \in DOMAIN m_log |-> NotInvoked]
    /\ cached_items' = GetFilesInCache(cache)
    /\ snap_cache' = cache
    /\ snap_dump' = dump
    /\ fetched' = {}
    /\ failed' = {}
    /\ UNCHANGED <<requested_modules, modules, cache, dump>>
    /\ UNCHANGED <<env, pc, exit_code, pending, globals, feed_items,
                   loop_entered, interrupted, slept_after_interrupt, did_io,
                   feed, prev_feed, prev_fetched, last_ok, wvars,
                   cvars>>

\* Variant of IsExternalError that catches nothing per module.
IsExternalErrorNever(result) == FALSE

\* The exception the reconciler catches per module.
IsExternalError(result) ==
    result.kind = "raise" /\ result.exc = "ModuleExternalError"

\* Steps 2 and 3: the worker of the current module produces its candidates;
\* an external-source error skips the module, any other exception ends the
\* run at the loop boundary; the cached filenames are taken out.
InvokeModule ==
    /\ m_pc = "module"
    /\ m_idx <= Len(requested_modules)
    /\ LET m == requested_modules[m_idx]
           config == modules[m]
       IN \E pages \in [PageKeys(m, config) -> RunResponsesOf(m)] :
            LET result == DumpOf(m, config, pages)
            IN IF IsExternalError(result)
               THEN /\ m_log' = [m_log EXCEPT ![m].outcome = result.exc]
                    /\ m_idx' = m_idx + 1
                    /\ UNCHANGED <<m_pc, todo, aborted>>
               ELSE IF result.kind = "raise"
               THEN /\ m_log' = [m_log EXCEPT ![m].outcome = result.exc]
                    /\ m_pc' = "over"
                    /\ aborted' = result.exc
                    /\ UNCHANGED <<m_idx, todo>>
               ELSE LET candidates == DOMAIN result.value
                        remaining == candidates \ cached_items
                    IN /\ m_log' = [m_log EXCEPT
                                      ![m].outcome = "returned",
                                      ![m].candidates = candidates,
                                      ![m].offered = remaining,
                                      ![m].n_duplicate =
                                         CountDuplicate(candidates,
                                                        cached_items)]
                       /\ todo' = remaining
                       /\ m_pc' = "download"
                       /\ UNCHANGED <<m_idx, aborted>>
    /\ UNCHANGED <<requested_modules, modules, cache, dump, cached_items,
                   snap_cache, snap_dump, fetched, failed>>
    /\ UNCHANGED <<env, pc, exit_code, pending, globals, feed_items,
                   loop_entered, interrupted, slept_after_interrupt, did_io,
                   feed, prev_feed, prev_fetched, last_ok, wvars,
                   cvars>>

\* Step 4: download() of one remaining candidate of the current module.
DownloadCandidate ==
    /\ m_pc = "download"
    /\ todo # {}
    /\ LET m == requested_modules[m_idx]
       IN \E f \in todo, o \in DownloadOutcomes :
            /\ DownloadPossible(cache[f], o)
            /\ LET r == Download(cache[f], dump[f], o)
               IN /\ cache' = [cache EXCEPT ![f] = r.cache]
                  /\ dump' = [dump EXCEPT ![f] = r.dump]
                  /\ fetched' = fetched \cup {f}
                  /\ todo' = todo \ {f}
                  /\ IF r.raised
                     THEN /\ m_log' = [m_log EXCEPT
                                         ![m].attempted = @ \cup {f}]
                          /\ m_pc' = "over"
                          /\ aborted' = "OSError"
                          /\ UNCHANGED failed
                     ELSE /\ m_log' = [m_log EXCEPT
                                         ![m].attempted = @ \cup {f},
                                         ![m].failed =
                                            IF r.ret THEN @ ELSE @ \cup {f},
                                         ![m].n_failed =
                                            IF r.ret THEN @ ELSE @ + 1]
                          /\ failed' = IF r.ret THEN failed
                                       ELSE failed \cup {f}
                          /\ UNCHANGED <<m_pc, aborted>>
    /\ UNCHANGED <<requested_modules, modules, m_idx, cached_items,
                   snap_cache, snap_dump>>
    /\ UNCHANGED <<env, pc, exit_code, pending, globals, feed_items,
                   loop_entered, interrupted, slept_after_interrupt, did_io,
                   feed, prev_feed, prev_fetched, last_ok, wvars,
                   cvars>>

\* Step 5: the counters of the current module are reported, the next module
\* is taken up.
ReportModule ==
    /\ m_pc = "download"
    /\ todo = {}
    /\ m_pc' = "module"
    /\ m_idx' = m_idx + 1
    /\ LET m == requested_modules[m_idx]
       IN m_log' = [m_log EXCEPT
                      ![m].reported = TRUE,
                      ![m].n_downloaded =
                         Cardinality(m_log[m].offered) - m_log[m].n_failed]
    /\ UNCHANGED <<requested_modules, modules, todo, aborted>>
    /\ UNCHANGED <<mainvars, wvars, cvars>>

\* The run is over after the last module.
RunEnd ==
    /\ m_pc = "module"
    /\ m_idx > Len(requested_modules)
    /\ m_pc' = "over"
    /\ UNCHANGED <<requested_modules, modules, m_idx, todo, aborted, m_log>>
    /\ UNCHANGED <<mainvars, wvars, cvars>>

NextModular ==
    \/ RunBegin
    \/ InvokeModule
    \/ DownloadCandidate
    \/ ReportModule
    \/ RunEnd

SpecModular == InitModular /\ [][NextModular]_vars


\* ------------------------------------------------------------------------
\* One call of file_helper.download (specification SpecDownload)
\* ------------------------------------------------------------------------

\* The filenames of the two directories during the call.
DownloadFiles == SeedFiles

InitDownload ==
    /\ m_pc = "call"
    /\ requested_modules = <<>>
    /\ modules = <<>>
    /\ m_idx = 0
    /\ todo = DownloadFiles
    /\ aborted = "none"
    /\ m_log = <<>>
    /\ cache \in [DownloadFiles -> EntryKinds]
    /\ dump \in [DownloadFiles -> EntryKinds]
    /\ cached_items = {}
    /\ snap_cache = cache
    /\ snap_dump = dump
    /\ fetched = {}
    /\ failed = {}
    /\ env = <<>>
    /\ pc = "off"
    /\ exit_code = -1
    /\ pending = "none"
    /\ globals = NoGlobals
    /\ feed_items = <<>>
    /\ loop_entered = FALSE
    /\ interrupted = FALSE
    /\ slept_after_interrupt = FALSE
    /\ did_io = FALSE
    /\ feed = {}
    /\ prev_feed = {}
    /\ prev_fetched = {}
    /\ last_ok = FALSE
    /\ WorkerOff
    /\ ConfigOff

\* download(config, filename, url), lines 59-118, for one of the filenames.
\* fetched is the filename of the call, m_log what the call returned.
DownloadCall ==
    /\ m_pc = "call"
    /\ \E f \in todo, o \in DownloadOutcomes :
         /\ DownloadPossible(cache[f], o)
         /\ LET r == Download(cache[f], dump[f], o)
            IN /\ cache' = [cache EXCEPT ![f] = r.cache]
               /\ dump' = [dump EXCEPT ![f] = r.dump]
               /\ fetched' = {f}
               /\ failed' = IF r.ret THEN {} ELSE {f}
               /\ m_log' = [ret |-> r.ret, raised |-> r.raised,
                            outcome |-> o]
    /\ m_pc' = "returned"
    /\ UNCHANGED <<requested_modules, modules, m_idx, todo, aborted,
                   cached_items, snap_cache, snap_dump>>
    /\ UNCHANGED <<env, pc, exit_code, pending, globals, feed_items,
                   loop_entered, interrupted, slept_after_interrupt, did_io,
                   feed, prev_feed, prev_fetched, last_ok, wvars, cvars>>

NextDownload == DownloadCall

SpecDownload == InitDownload /\ [][NextDownload]_vars

\* ------------------------------------------------------------------------
\* src/distrodumper/validation.py and the validators of config_helper.py
\* ------------------------------------------------------------------------

\* The characters str.strip() removes (those the model uses).
Whitespace == {" "}

RECURSIVE LStrip(_)
LStrip(s) ==
    IF s # <<>> /\ Head(s) \in Whitespace THEN LStrip(Tail(s)) ELSE s

RECURSIVE RStrip(_)
RStrip(s) ==
    IF s # <<>> /\ s[Len(s)] \in Whitespace
    THEN RStrip(SubSeq(s, 1, Len(s) - 1))
    ELSE s

\* str.strip()
Strip(s) == RStrip(LStrip(s))

\* Variant of StrippedValues that does not strip.
UnstrippedValues(val) == Split(val, ",")

\* [value.strip() for value in val.split(",")]
StrippedValues(val) ==
    LET pieces == Split(val, ",")
    IN [i \in 1..Len(pieces) |-> Strip(pieces[i])]

\* validation.is_atomic_csv, lines 8-25; a value of os.environ is a str.
IsAtomicCsv(val, atoms) ==
    LET values == StrippedValues(val)
    IN Len(values) > 0 /\ \A i \in 1..Len(values) : values[i] \in atoms

\* validation.is_bool_string, lines 28-40.
IsBoolString(val) == Lower(val) \in {<<"t", "r", "u", "e">>,
<<"f", "a", "l", "s", "e">>}

\* config_helper.__is_non_zero_int, lines 100-111, on a str.
IsNonZeroInt(val) == AllDigits(val) /\ DigitsValue(val) > 0

\* config_helper.__is_nonempty_string, lines 66-77.
IsNonemptyString(val) == Len(val) > 0

\* ------------------------------------------------------------------------
\* src/distrodumper/config_helper.py and the verify_config of the modules
\* ------------------------------------------------------------------------

ArchName == <<"a", "r", "c", "h">>
DebianName == <<"d", "e", "b", "i", "a", "n">>
ExampleName == <<"e", "x", "a", "m", "p", "l", "e">>

\* The keys of __AVAILABLE_MODULES, lines 37-43.
RegisteredNames == {ArchName, ExampleName, DebianName}

\* debian.py __AVAILABLE_ARCHS, lines 31-41 (the two the model uses).
DebianArchs == {<<"a", "m", "d", "6", "4">>, <<"a", "r", "m", "6", "4">>}

\* The directories that exist (os.path.isdir).
Directories == {<<"/", "c", "a", "c", "h", "e">>, <<"/", "d", "u", "m", "p">>}

\* The validator of an environment variable.
Validator(var, val) ==
    CASE var = "DUMPER_MODULES" -> IsAtomicCsv(val, RegisteredNames)
      [] var = "DUMPER_CACHE" -> IsNonemptyString(val) /\ val \in Directories
      [] var = "DUMPER_DIRECTORY" ->
           IsNonemptyString(val) /\ val \in Directories
      [] var = "DUMPER_DEBUG" -> IsBoolString(val)
      [] var = "DUMPER_INTERVAL" -> IsNonZeroInt(val)
      [] var = "ARCH_GET_ALL" -> val \in {<<"t", "r", "u", "e">>,
      <<"f", "a", "l", "s", "e">>}
      [] var = "ARCH_GET_AVAILABLE" -> val \in {<<"t", "r", "u", "e">>,
      <<"f", "a", "l", "s", "e">>}
      [] var = "DEBIAN_ARCHS" -> IsAtomicCsv(val, DebianArchs)
      [] var = "DEBIAN_MEDIA" -> IsAtomicCsv(val, {<<"c", "d">>,
      <<"d", "v", "d">>})
      [] var = "DEBIAN_EXTRA_FLAVORS" -> val \in {<<"e", "d", "u">>,
      <<"m", "a", "c">>}

\* The two loops every verify function runs over its required and optional
\* validators: the variables an error is logged for.  Neither loop stops at
\* a failure.
VerifyErrors(required, optional, e) ==
    {v \in required : v \notin DOMAIN e \/ ~Validator(v, e[v])}
    \cup {v \in optional : v \in DOMAIN e /\ ~Validator(v, e[v])}

GlobalRequired == {"DUMPER_MODULES"}
GlobalOptional ==
    {"DUMPER_CACHE", "DUMPER_DEBUG", "DUMPER_DIRECTORY", "DUMPER_INTERVAL"}

\* verify_environment, lines 121-157.
VerifyEnvironmentErrors(e) == VerifyErrors(GlobalRequired, GlobalOptional, e)

\* The required and optional variables of a module.
ModuleRequired(name) ==
    IF name = DebianName THEN {"DEBIAN_ARCHS", "DEBIAN_MEDIA"} ELSE {}

ModuleOptional(name) ==
    IF name = ArchName THEN {"ARCH_GET_ALL", "ARCH_GET_AVAILABLE"}
    ELSE IF name = DebianName THEN {"DEBIAN_EXTRA_FLAVORS"}
    ELSE {}

\* verify_config of arch.py (lines 164-189) and debian.py (lines 228-264).
ModuleVerifyErrors(name, e) ==
    VerifyErrors(ModuleRequired(name), ModuleOptional(name), e)

\* The module has a function verify_config: example.py only has the static
\* method ExampleHelper.verify_config.
HasVerifyConfig(name) == name # ExampleName

\* generate_from_environment, lines 160-196.
GenerateFromEnvironment(e) ==
    IF "DUMPER_MODULES" \notin DOMAIN e
    THEN [raised |-> "KeyError"]
    ELSE [raised |-> "none",
          requested_modules |-> StrippedValues(e["DUMPER_MODULES"]),
          modules |-> <<>>,
          cache_dir |-> IF "DUMPER_CACHE" \in DOMAIN e
                        THEN e["DUMPER_CACHE"] ELSE <<"/", "c", "a", "c", "h", "e">>,
          debug |-> IF "DUMPER_DEBUG" \in DOMAIN e
                    THEN e["DUMPER_DEBUG"] = <<"t", "r", "u", "e">> ELSE FALSE,
          dump_dir |-> IF "DUMPER_DIRECTORY" \in DOMAIN e
                       THEN e["DUMPER_DIRECTORY"] ELSE <<"/", "d", "u", "m", "p">>,
          interval |-> IF "DUMPER_INTERVAL" \in DOMAIN e
                       THEN PyInt(e["DUMPER_INTERVAL"]) ELSE 3600]

\* int(raw_val) of line 193 raises ValueError.
GenerateRaisesValueError(e) ==
    "DUMPER_INTERVAL" \in DOMAIN e /\ PyIntRaises(e["DUMPER_INTERVAL"])

\* Line 218, valid = valid and module.verify_config(): the right operand is
\* evaluated only while valid is True.
KeepsValid(valid) == valid

\* verify_module_environments, lines 199-220: the loop from module i on.
\*   valid    the value of valid
\*   called   the modules whose verify_config was called
\*   errors   the variables an error was logged for
\*   raised   the exception that left the function, or none
RECURSIVE VerifyModulesFrom(_, _, _, _)
VerifyModulesFrom(names, e, i, acc) ==
    IF i > Len(names) THEN acc
    ELSE IF names[i] \notin RegisteredNames
    THEN [acc EXCEPT !.raised = "KeyError"]
    ELSE IF ~KeepsValid(acc.valid)
    THEN VerifyModulesFrom(names, e, i + 1, acc)
    ELSE IF ~HasVerifyConfig(names[i])
    THEN [acc EXCEPT !.raised = "AttributeError"]
    ELSE LET errors == ModuleVerifyErrors(names[i], e)
         IN VerifyModulesFrom(names, e, i + 1,
                [valid |-> acc.valid /\ errors = {},
                 called |-> acc.called \cup {names[i]},
                 errors |-> acc.errors \cup errors,
                 raised |-> "none"])

VerifyModuleEnvironments(config, e) ==
    VerifyModulesFrom(config.requested_modules, e, 1,
        [valid |-> TRUE, called |-> {}, errors |-> {}, raised |-> "none"])

\* The module has a function generate_from_environment: example.py only has
\* the static method ExampleHelper.generate_from_environment.
HasGenerateFromEnvironment(name) == name # ExampleName

\* arch.py generate_from_environment, lines 192-215.
ArchGenerateFromEnvironment(e) ==
    [get_all |-> IF "ARCH_GET_ALL" \in DOMAIN e
                 THEN e["ARCH_GET_ALL"] = <<"t", "r", "u", "e">> ELSE FALSE,
     get_available |-> IF "ARCH_GET_AVAILABLE" \in DOMAIN e
                       THEN e["ARCH_GET_AVAILABLE"] = <<"t", "r", "u", "e">>
                       ELSE FALSE]

\* debian.py generate_from_environment, lines 267-289, when the two
\* required variables are set.
DebianGenerateFromEnvironment(e) ==
    [requested_archs |-> StrippedValues(e["DEBIAN_ARCHS"]),
     requested_media |-> StrippedValues(e["DEBIAN_MEDIA"]),
     extra_flavors |-> IF "DEBIAN_EXTRA_FLAVORS" \in DOMAIN e
                       THEN StrippedValues(e["DEBIAN_EXTRA_FLAVORS"])
                       ELSE <<>>]

\* os.environ[...] of debian.py lines 274-275 raises KeyError.
ModuleGenerateRaisesKeyError(name, e) ==
    name = DebianName /\ ~({"DEBIAN_ARCHS", "DEBIAN_MEDIA"} \subseteq DOMAIN e)

ModuleGenerateFromEnvironment(name, e) ==
    IF name = ArchName THEN ArchGenerateFromEnvironment(e)
    ELSE DebianGenerateFromEnvironment(e)

\* populate_module_configurations, lines 223-239: the loop from module i on.
\*   modules  config.modules, a pair (module_config, module) per name
\*   raised   the exception that left the function, or none
RECURSIVE PopulateFrom(_, _, _, _)
PopulateFrom(names, e, i, acc) ==
    IF i > Len(names) THEN acc
    ELSE IF names[i] \notin RegisteredNames
    THEN [acc EXCEPT !.raised = "KeyError"]
    ELSE IF ~HasGenerateFromEnvironment(names[i])
    THEN [acc EXCEPT !.raised = "AttributeError"]
    ELSE IF ModuleGenerateRaisesKeyError(names[i], e)
    THEN [acc EXCEPT !.raised = "KeyError"]
    ELSE PopulateFrom(names, e, i + 1,
             [modules |->
                 [n \in DOMAIN acc.modules \cup {names[i]} |->
                     IF n = names[i]
                     THEN [config |-> ModuleGenerateFromEnvironment(n, e),
                           module |-> n]
                     ELSE acc.modules[n]],
              raised |-> "none"])

PopulateModuleConfigurations(config, e) ==
    PopulateFrom(config.requested_modules, e, 1,
        [modules |-> config.modules, raised |-> "none"])

\* ------------------------------------------------------------------------
\* Configuration validation at startup (specification SpecConfig)
\* ------------------------------------------------------------------------

\* Values of the environment variables; an absent variable is outside the
\* domain of env.
ConfigValuesOf(var) ==
    CASE var = "DUMPER_MODULES" ->
           {<<"a", "r", "c", "h">>,
            <<"a", "r", "c", "h", ",", "d", "e", "b", "i", "a", "n">>,
            <<" ", "a", "r", "c", "h", " ", ",", " ", "d", "e", "b", "i", "a", "n">>,
            <<"d", "e", "b", "i", "a", "n", ",", "a", "r", "c", "h">>,
            <<"e", "x", "a", "m", "p", "l", "e">>,
            <<"a", "r", "c", "h", ",", "x">>, <<>>,
            <<"a", "r", "c", "h", ",">>, <<"A", "r", "c", "h">>,
            <<"a", "r", "c", "h", ",", "a", "r", "c", "h">>}
      [] var = "DUMPER_INTERVAL" -> {<<"5">>, <<"0">>, <<"a">>}
      [] var = "DUMPER_DEBUG" ->
           {<<"t", "r", "u", "e">>, <<"T", "r", "u", "e">>, <<"x">>}
      [] var = "ARCH_GET_ALL" ->
           {<<"t", "r", "u", "e">>, <<"T", "r", "u", "e">>,
            <<"f", "a", "l", "s", "e">>, <<"y", "e", "s">>}
      [] var = "DEBIAN_ARCHS" -> {<<"a", "m", "d", "6", "4">>,
      <<"a", "m", "d", "6", "4", ",", "x">>}
      [] var = "DEBIAN_MEDIA" -> {<<"c", "d">>, <<"b", "d">>}
      [] var = "DEBIAN_EXTRA_FLAVORS" -> {<<"e", "d", "u">>,
      <<"e", "d", "u", ",", "m", "a", "c">>}

\* The value that stands for a variable that is not set.
Unset == <<"unset">>

ConfigChoices(var) == ConfigValuesOf(var) \cup {Unset}

\* os.environ with the variables that are set.
EnvironmentOf(choice) ==
    [v \in {w \in DOMAIN choice : choice[w] # Unset} |-> choice[v]]

InitConfig ==
    /\ c_pc = "ready"
    /\ \E v_modules \in ConfigChoices("DUMPER_MODULES"),
          v_interval \in ConfigChoices("DUMPER_INTERVAL"),
          v_debug \in ConfigChoices("DUMPER_DEBUG"),
          v_get_all \in ConfigChoices("ARCH_GET_ALL"),
          v_archs \in ConfigChoices("DEBIAN_ARCHS"),
          v_media \in ConfigChoices("DEBIAN_MEDIA"),
          v_flavors \in ConfigChoices("DEBIAN_EXTRA_FLAVORS") :
            env = EnvironmentOf([DUMPER_MODULES |-> v_modules,
                                 DUMPER_INTERVAL |-> v_interval,
                                 DUMPER_DEBUG |-> v_debug,
                                 ARCH_GET_ALL |-> v_get_all,
                                 DEBIAN_ARCHS |-> v_archs,
                                 DEBIAN_MEDIA |-> v_media,
                                 DEBIAN_EXTRA_FLAVORS |-> v_flavors])
    /\ c_valid = FALSE
    /\ c_errors = {}
    /\ c_config = <<>>
    /\ c_modules = <<>>
    /\ c_val = <<>>
    /\ c_verdict = <<>>
    /\ pc = "off"
    /\ exit_code = -1
    /\ pending = "none"
    /\ globals = NoGlobals
    /\ feed_items = <<>>
    /\ cached_items = {}
    /\ cache = <<>>
    /\ dump = <<>>
    /\ loop_entered = FALSE
    /\ interrupted = FALSE
    /\ slept_after_interrupt = FALSE
    /\ did_io = FALSE
    /\ feed = {}
    /\ fetched = {}
    /\ failed = {}
    /\ snap_cache = <<>>
    /\ snap_dump = <<>>
    /\ prev_feed = {}
    /\ prev_fetched = {}
    /\ last_ok = FALSE
    /\ WorkerOff
    /\ ModularOff

\* verify_environment()
VerifyEnvironment ==
    /\ c_pc = "ready"
    /\ c_pc' = "verified"
    /\ c_errors' = VerifyEnvironmentErrors(env)
    /\ c_valid' = (VerifyEnvironmentErrors(env) = {})
    /\ UNCHANGED <<c_config, c_modules, c_val, c_verdict>>
    /\ UNCHANGED <<mainvars, wvars, mvars>>

\* generate_from_environment()
GenerateConfiguration ==
    /\ c_pc = "verified"
    /\ c_pc' = "generated"
    /\ c_config' = IF GenerateRaisesValueError(env)
                   THEN [raised |-> "ValueError"]
                   ELSE GenerateFromEnvironment(env)
    /\ UNCHANGED <<c_valid, c_errors, c_modules, c_val, c_verdict>>
    /\ UNCHANGED <<mainvars, wvars, mvars>>

\* verify_module_environments(config)
VerifyModules ==
    /\ c_pc = "generated"
    /\ c_config.raised = "none"
    /\ c_pc' = "done"
    /\ c_modules' = VerifyModuleEnvironments(c_config, env)
    /\ UNCHANGED <<c_valid, c_errors, c_config, c_val, c_verdict>>
    /\ UNCHANGED <<mainvars, wvars, mvars>>

\* populate_module_configurations(config), once verify_module_environments
\* has returned; an exception leaves config.modules as far as it was filled.
PopulateModules ==
    /\ c_pc = "done"
    /\ c_modules.raised = "none"
    /\ LET r == PopulateModuleConfigurations(c_config, env)
       IN /\ c_pc' = IF r.raised = "none" THEN "populated" ELSE "raised"
          /\ c_config' = [c_config EXCEPT !.modules = r.modules]
    /\ UNCHANGED <<c_valid, c_errors, c_modules, c_val, c_verdict>>
    /\ UNCHANGED <<mainvars, wvars, mvars>>

NextConfig ==
    \/ VerifyEnvironment
    \/ GenerateConfiguration
    \/ VerifyModules
    \/ PopulateModules

SpecConfig == InitConfig /\ [][NextConfig]_vars


\* ------------------------------------------------------------------------
\* One value given to the validators (specification SpecValidators)
\* ------------------------------------------------------------------------

\* Bound: largest integer given to a validator.
MaxInt == 25

\* A Python value: its type, and its integer value (of an int; of a bool,
\* which is the int 1 or 0), or its text (of a str; of a float, its repr).
PyValue(type, int, text) == [type |-> type, int |-> int, text |-> text]

PyTrue == PyValue("bool", 1, <<>>)
PyFalse == PyValue("bool", 0, <<>>)

ValidatorStrings ==
    {<<"1">>,
     <<"1", "1", "2", "3", "1">>,
     <<"0">>,
     <<"0", "0">>,
     <<"0", "0", "7">>,
     <<"-", "1">>,
     <<"+", "1">>,
     <<"1", ".", "1">>,
     <<>>,
     <<"a">>,
     <<"1", "a">>,
     <<" ", "1">>,
     <<"t", "r", "u", "e">>,
     <<"T", "r", "u", "e">>,
     <<"T", "R", "U", "E">>,
     <<"t", "R", "u", "E">>,
     <<"f", "a", "l", "s", "e">>,
     <<"F", "a", "l", "s", "e">>,
     <<"u", "n", "t", "r", "u", "e">>,
     <<" ", "t", "r", "u", "e">>,
     <<"t", "r", "u", "e", " ">>,
     <<"y", "e", "s">>,
     <<"5">>,
     <<"1", "0">>}

ValidatorValues ==
    {PyValue("int", n, <<>>) : n \in -3..MaxInt}
    \cup {PyTrue, PyFalse}
    \cup {PyValue("float", 0, t) :
             t \in {<<"1", ".", "1">>, <<"0", ".", "0">>, <<"-", "1", ".", "5">>}}
    \cup {PyValue("str", 0, t) : t \in ValidatorStrings}

\* isinstance(val, int): a bool is an int.
IsInstanceInt(val) == val.type \in {"int", "bool"}

\* validation.is_non_zero_int, lines 57-72.
PublicIsNonZeroInt(val) ==
    /\ val.type # "bool"
    /\ \/ IsInstanceInt(val) /\ val.int > 0
       \/ val.type = "str" /\ AllDigits(val.text) /\ PyInt(val.text) > 0

\* config_helper.__is_non_zero_int, lines 100-111.
PrivateIsNonZeroInt(val) ==
    \/ IsInstanceInt(val)
    \/ val.type = "str" /\ IsNonZeroInt(val.text)

InitValidators ==
    /\ c_pc = "probe"
    /\ c_val \in ValidatorValues
    /\ c_verdict = <<>>
    /\ c_valid = FALSE
    /\ c_errors = {}
    /\ c_config = <<>>
    /\ c_modules = <<>>
    /\ env = <<>>
    /\ pc = "off"
    /\ exit_code = -1
    /\ pending = "none"
    /\ globals = NoGlobals
    /\ feed_items = <<>>
    /\ cached_items = {}
    /\ cache = <<>>
    /\ dump = <<>>
    /\ loop_entered = FALSE
    /\ interrupted = FALSE
    /\ slept_after_interrupt = FALSE
    /\ did_io = FALSE
    /\ feed = {}
    /\ fetched = {}
    /\ failed = {}
    /\ snap_cache = <<>>
    /\ snap_dump = <<>>
    /\ prev_feed = {}
    /\ prev_fetched = {}
    /\ last_ok = FALSE
    /\ WorkerOff
    /\ ModularOff

\* Each validator is called with the value.
ApplyValidators ==
    /\ c_pc = "probe"
    /\ c_pc' = "probed"
    /\ c_verdict' =
          [is_non_zero_int |-> PublicIsNonZeroInt(c_val),
           private_is_non_zero_int |-> PrivateIsNonZeroInt(c_val),
           is_bool_string |-> c_val.type = "str" /\ IsBoolString(c_val.text)]
    /\ UNCHANGED <<c_valid, c_errors, c_config, c_modules, c_val>>
    /\ UNCHANGED <<mainvars, wvars, mvars>>

NextValidators == ApplyValidators

SpecValidators == InitValidators /\ [][NextValidators]_vars

\* ------------------------------------------------------------------------
\* Properties of the scheduler loop and reconciler (specification Spec)
\* ------------------------------------------------------------------------

\* A run is over: __dump has returned or raised and the finally clause runs.
RunOver == pc = "sleep"

\* C1: for every candidate whose download failed (fetch, write or copy
\* error), after the run neither the cache file nor the dump file of that
\* name exists.  The claim is for every prior state of the two directories;
\* it is stated here for the filenames that were in neither directory when
\* the run took its snapshot, the case in which only the run itself can have
\* left something behind.
C1_NoPartialArtifacts ==
    RunOver =>
        \A f \in failed :
            (~Exists(snap_cache[f]) /\ ~Exists(snap_dump[f])) =>
                (~Exists(cache[f]) /\ ~Exists(dump[f]))

\* C2: no fetch is issued in a run for a filename that was a regular file in
\* the cache directory when the snapshot of the run was taken; such a
\* candidate is skipped and its cache and dump entries are left as they were.
C2_NoFetchOfCached ==
    \A f \in Titles :
        IsFile(snap_cache[f]) =>
            /\ f \notin fetched
            /\ cache[f] = snap_cache[f]
            /\ dump[f] = snap_dump[f]

\* C2 witness: a run has passed over a candidate that was in the snapshot
\* and has downloaded another one.
C2_Witness ==
    /\ pc = "dump"
    /\ feed_items = <<>>
    /\ \E f \in feed : IsFile(snap_cache[f])
    /\ fetched # {}

\* C3: when the last run completed with every download succeeding and the
\* source returns the same candidates again, the run performs no download
\* and finds every candidate in its cache snapshot.
C3_SecondRunIsNoOp ==
    (pc = "dump" /\ last_ok /\ feed = prev_feed) =>
        /\ fetched = {}
        /\ feed \subseteq cached_items

\* C3 witness: the second of two runs over the same non-empty candidate set
\* has processed all its candidates, the first having downloaded something.
C3_Witness ==
    /\ pc = "dump"
    /\ last_ok
    /\ feed = prev_feed
    /\ feed # {}
    /\ feed_items = <<>>
    /\ prev_fetched # {}
    /\ fetched = {}

\* C5: once the loop has been entered, the process terminates only because
\* of an interrupt signal.
C5_OnlyInterruptTerminates ==
    (pc = "terminated" /\ loop_entered) => interrupted

\* C6: an interrupt delivered after the loop was entered makes the process
\* exit with code 0 without a poll-interval sleep in between.
C6_PromptExitZero ==
    (pc = "terminated" /\ loop_entered /\ interrupted) =>
        /\ exit_code = 0
        /\ ~slept_after_interrupt

\* The configuration failures of C7 that src/dumper.py can meet: a required
\* key missing or empty, or a poll interval that is not a positive integer.
ConfigInvalid(e) ==
    \/ ~VerifyEnvironOk(e)
    \/ PyIntRaises(e["DUMP_INTERVAL"])
    \/ PyInt(e["DUMP_INTERVAL"]) <= 0

\* C7: when the startup configuration is invalid the process exits with
\* code 1 before the first iteration, without any fetch or filesystem write.
C7_InvalidConfigExitsOne ==
    (ConfigInvalid(env) /\ pc # "start" /\ ~interrupted) =>
        /\ pc = "terminated"
        /\ exit_code = 1
        /\ ~loop_entered
        /\ ~did_io

\* ------------------------------------------------------------------------
\* Properties of the source modules (specification SpecWorker)
\* ------------------------------------------------------------------------

\* The fetch of a page failed: the request raised (timeout, connection
\* error) or returned a non-success status.
FetchFailed(resp) == resp.exc # "none" \/ resp.status_code # 200

\* Some listing fetch that dump() issues fails: the pages before it were
\* fetched and processed without an exception.
ListingFetchFails ==
    IF w_module = "debian"
    THEN LET pairs == DebianPairs(w_config) IN
         \E i \in 1..Len(pairs) :
            /\ FetchFailed(w_pages[pairs[i]])
            /\ \A j \in 1..(i - 1) :
                  /\ ~FetchFailed(w_pages[pairs[j]])
                  /\ \A a \in SeqToSet(w_pages[pairs[j]].anchors) :
                        a # NoHref
    ELSE \E k \in DOMAIN w_pages : FetchFailed(w_pages[k])

\* C8: for every source module, a failed fetch of its listing page makes
\* dump() raise ModuleExternalError: no other exception, no normal return.
C8_FetchFailureRaisesModuleExternalError ==
    (w_pc = "done" /\ ListingFetchFails) =>
        /\ w_result.kind = "raise"
        /\ w_result.exc = "ModuleExternalError"

\* Every page was fetched successfully and holds no entry that matches the
\* pattern of the module.
NoMatchingEntry ==
    \A k \in DOMAIN w_pages :
        /\ ~FetchFailed(w_pages[k])
        /\ SeqToSet(w_pages[k].anchors) \subseteq {NoHref, OtherLink}
        /\ w_pages[k].inline = <<>>

\* C9: for every source module and valid configuration, a successfully
\* fetched listing without matching entry makes dump() return an empty map
\* and raise nothing.
C9_NoMatchReturnsEmptyMap ==
    (w_pc = "done" /\ NoMatchingEntry) => w_result = Return(EmptyDict)

\* The release dates matched in the Arch listing.
ArchMatched ==
    {a \in SeqToSet(w_pages["index"].anchors) : a.kind = "arch_iso"}

\* (year, month, day) of a is before that of b, as numbers.
DateBefore(a, b) ==
    LET ya == DigitsValue(a.year)  yb == DigitsValue(b.year)
        ma == DigitsValue(a.major) mb == DigitsValue(b.major)
        da == DigitsValue(a.minor) db == DigitsValue(b.minor)
    IN \/ ya < yb
       \/ ya = yb /\ ma < mb
       \/ ya = yb /\ ma = mb /\ da < db

\* The candidate map that holds the latest release of the listing only.
ArchLatestOnly ==
    LET latest == CHOOSE a \in ArchMatched :
                      \A b \in ArchMatched : b = a \/ DateBefore(b, a)
    IN ArchFilename(latest.year, latest.major, latest.minor) :>
           ArchTorrentUrl(latest.year, latest.major, latest.minor)

\* An Arch call with get_all disabled on a fetched listing with a match.
ArchLatestCase ==
    /\ w_pc = "done"
    /\ w_module = "arch"
    /\ ~w_config.get_all
    /\ ~FetchFailed(w_pages["index"])
    /\ ArchMatched # {}

\* C10: with get_all disabled, for every listing with at least one matching
\* release link ArchWorker.dump returns exactly one candidate, the one with
\* the greatest (year, month, day), whatever the order of the links.
C10_LatestOnly ==
    ArchLatestCase => w_result = Return(ArchLatestOnly)

\* The part of C10 that the code keeps: the same statement for the listings
\* in which every anchor carries an href.
ArchLatestOnlyWhenEveryAnchorHasHref ==
    (ArchLatestCase /\ NoHref \notin SeqToSet(w_pages["index"].anchors)) =>
        w_result = Return(ArchLatestOnly)


\* The candidate map with one entry per release date matched in the listing:
\* archlinux-<Y>-<M>-<D>-x86_64.torrent |-> the torrent URL of <Y>.<M>.<D>.
ArchOnePerDate ==
    LET names == {ArchFilename(a.year, a.major, a.minor) : a \in ArchMatched}
    IN [f \in names |->
          LET a == CHOOSE b \in ArchMatched :
                       ArchFilename(b.year, b.major, b.minor) = f
          IN ArchTorrentUrl(a.year, a.major, a.minor)]

\* An Arch call with get_all enabled on a fetched listing with a match.
ArchAllCase ==
    /\ w_pc = "done"
    /\ w_module = "arch"
    /\ w_config.get_all
    /\ ~FetchFailed(w_pages["index"])
    /\ ArchMatched # {}

\* C11: with get_all enabled ArchWorker.dump returns exactly one candidate
\* per distinct release date matched in the listing, keyed with the filename
\* of the date and valued with the torrent URL of the same date; repeated
\* links of one date give a single entry.
C11_OnePerDate ==
    ArchAllCase => w_result = Return(ArchOnePerDate)

\* The part of C11 that the code keeps: the same statement for the listings
\* in which every anchor carries an href.
ArchOnePerDateWhenEveryAnchorHasHref ==
    (ArchAllCase /\ NoHref \notin SeqToSet(w_pages["index"].anchors)) =>
        w_result = Return(ArchOnePerDate)

\* A listing of three release links, two of one date, gives two candidates.
ArchOnePerDateReached ==
    /\ ArchAllCase
    /\ w_result.kind = "return"
    /\ Cardinality(DOMAIN w_result.value) = 2
    /\ Len(w_pages["index"].anchors) = 3
    /\ SeqToSet(w_pages["index"].anchors) = ArchMatched


\* The torrents found on the CachyOS downloads page: the http(s) URLs of
\* the anchors and of the raw HTML whose file name ends in .torrent.
CachyFound ==
    {u \in CachyFoundInAnchors(w_pages["index"].anchors)
           \cup CachyFoundInline(w_pages["index"].inline) : u.torrent}

\* A CachyOS call with a non-empty set of requested editions on a fetched
\* downloads page.
CachyCase ==
    /\ w_pc = "done"
    /\ w_module = "cachyos"
    /\ w_config.requested_editions # <<>>
    /\ ~FetchFailed(w_pages["index"])

\* C12: CachyOsWorker.dump returns a candidate only if its label holds one
\* of the requested editions: a torrent of an edition that was not requested
\* is never in the result, every found torrent of a requested edition is.
C12_EditionFilter ==
    CachyCase =>
        LET requested == SeqToSet(w_config.requested_editions)
        IN /\ w_result.kind = "return"
           /\ \A f \in DOMAIN w_result.value :
                 /\ w_result.value[f] \in CachyFound
                 /\ w_result.value[f].file = f
                 /\ (w_result.value[f].words \cap requested) # {}
           /\ \A u \in CachyFound :
                 (u.words \cap requested) # {} =>
                     (u.file \in DOMAIN w_result.value
                      /\ w_result.value[u.file] = u)

\* C12 witness: desktop and handheld torrents were found, one of the two
\* editions was requested and only its torrent is returned.
C12_Witness ==
    /\ CachyCase
    /\ Len(w_config.requested_editions) = 1
    /\ {u.words : u \in CachyFound} = {{"desktop"}, {"handheld"}}
    /\ Cardinality(DOMAIN w_result.value) = 1


\* ------------------------------------------------------------------------
\* Properties of the reconciler over the registry (specification SpecModular)
\* ------------------------------------------------------------------------

\* Module m comes before module n in the run.
Before(m, n) ==
    \E i, j \in 1..Len(requested_modules) :
        i < j /\ requested_modules[i] = m /\ requested_modules[j] = n

\* A run is over in which the listing fetch of some module failed with the
\* external-source error and nothing else raised.
RunWithSkippedModule ==
    /\ m_pc = "over"
    /\ aborted \in {"none", "ModuleExternalError"}
    /\ \E m \in DOMAIN m_log : m_log[m].outcome = "ModuleExternalError"

MaxNames == 2

Paddings == {<<>>, <<" ">>}

PaddedNames ==
    {l \o n \o r : l \in Paddings, n \in RegisteredNames, r \in Paddings}

\* The lists of k registered names, each with optional surrounding
\* whitespace, joined by commas.
RECURSIVE ListsOf(_)
ListsOf(k) ==
    IF k = 1 THEN PaddedNames
    ELSE {p \o <<",">> \o rest : p \in PaddedNames, rest \in ListsOf(k - 1)}

RegisteredLists == UNION {ListsOf(k) : k \in 1..MaxNames}

ModuleListRegistered ==
    /\ "DUMPER_MODULES" \in DOMAIN env
    /\ env["DUMPER_MODULES"] \in RegisteredLists

\* C14: verify_environment accepts the module list exactly when it is set
\* and is a comma-separated list of at least one element whose elements,
\* stripped of surrounding whitespace, are all registered module names; a
\* missing list, an empty element or an unknown name makes it log an error
\* for DUMPER_MODULES and return False.
C14_ModuleListValidation ==
    c_pc \in {"verified", "generated", "done"} =>
        /\ ("DUMPER_MODULES" \notin c_errors) <=> ModuleListRegistered
        /\ "DUMPER_MODULES" \in c_errors => ~c_valid
        /\ c_valid <=> (c_errors = {})

C14_Witness ==
    /\ c_pc = "verified"
    /\ "DUMPER_MODULES" \in DOMAIN env
    /\ env["DUMPER_MODULES"] =
           <<" ", "a", "r", "c", "h", " ", ",", " ", "d", "e", "b", "i", "a", "n">>
    /\ c_valid

C14_WitnessRejected ==
    /\ c_pc = "verified"
    /\ "DUMPER_MODULES" \in DOMAIN env
    /\ env["DUMPER_MODULES"] = <<"a", "r", "c", "h", ",">>
    /\ c_errors = {"DUMPER_MODULES"}
    /\ ~c_valid


RequestedSet == SeqToSet(c_config.requested_modules)

\* The variables of the requested modules whose check fails.
AllModuleErrors ==
    UNION {ModuleVerifyErrors(n, env) : n \in RequestedSet \cap RegisteredNames}

\* The startup sequence got through verify_environment with True and
\* verify_module_environments has been called.
ModulesVerified == c_pc = "done" /\ c_valid

\* C20: validation is collected, never short-circuited: after
\* verify_environment returned True, verify_module_environments has called
\* verify_config of every requested module, an error was logged for every
\* failing variable of every requested module, and it returned False
\* exactly when at least one check failed.
C20_ValidationCollected ==
    ModulesVerified =>
        /\ c_modules.raised = "none"
        /\ c_modules.called = RequestedSet
        /\ c_modules.errors = AllModuleErrors
        /\ c_modules.valid <=> (AllModuleErrors = {})

\* C20 without the example module requested: the calls that are left out
\* are those after the first module that failed.
C20_CollectedWithoutExample ==
    (ModulesVerified /\ ExampleName \notin RequestedSet) =>
        /\ c_modules.called = RequestedSet
        /\ c_modules.errors = AllModuleErrors

\* C20, the parts the code keeps: verify_environment logs an error for
\* every failing variable and returns False exactly when there is one;
\* each verify_config that is called checks all its variables; and the
\* value verify_module_environments returns is False exactly when a check
\* of a requested module fails.
C20_ReturnValue ==
    /\ c_pc \in {"verified", "generated", "done"} =>
          /\ c_errors = VerifyEnvironmentErrors(env)
          /\ c_valid <=> (c_errors = {})
    /\ (ModulesVerified /\ c_modules.raised = "none") =>
          /\ c_modules.valid <=> (AllModuleErrors = {})
          /\ \A n \in c_modules.called :
                ModuleVerifyErrors(n, env) \subseteq c_modules.errors

C20_ReturnValueReached ==
    /\ ModulesVerified
    /\ c_modules.raised = "none"
    /\ c_config.requested_modules = <<DebianName, ArchName>>
    /\ c_modules.errors = {"DEBIAN_ARCHS", "DEBIAN_MEDIA"}
    /\ ~c_modules.valid


\* ------------------------------------------------------------------------
\* Properties of the listing-page requests (specification SpecWorker)
\* ------------------------------------------------------------------------

\* C15: every listing-page request a source module issues is passed a
\* User-Agent header.
C15_UserAgentOnListingRequests ==
    \A r \in w_requests : "User-Agent" \in r.headers

\* What does hold of the requests: every module but example requests at
\* least one listing page, and only rpios goes through the cloudscraper
\* session, which sets a browser User-Agent of its own.
ListingRequestsIssued ==
    w_pc = "done" =>
        /\ (w_module # "example") <=> (w_requests # {})
        /\ \A r \in w_requests :
              (r.client = "cloudscraper") <=> (w_module = "rpios")

ListingRequestsIssuedReached ==
    /\ w_pc = "done"
    /\ w_module = "debian"
    /\ Cardinality(w_requests) = 2


\* ------------------------------------------------------------------------
\* Properties of the scheduler loop, continued (specification Spec)
\* ------------------------------------------------------------------------

\* C16: the program creates or rewrites a dump file only as the copy of
\* the completed cache file of the same name, saved before the copy; and a
\* cache file is created only by a fetch of this run, never from the dump
\* directory.
C16_DumpOnlyFromCache ==
    [][\A f \in DOMAIN dump :
          /\ (dump'[f] # dump[f] /\ Exists(dump'[f])) =>
                (cache'[f] = "file" /\ f \in fetched')
          /\ (cache'[f] # cache[f] /\ Exists(cache'[f])) => f \in fetched'
      ]_vars

C16_Witness ==
    \E f \in DOMAIN dump :
        /\ f \in fetched
        /\ f \in DOMAIN snap_dump
        /\ snap_dump[f] = "absent"
        /\ snap_cache[f] = "absent"
        /\ dump[f] = "file"
        /\ cache[f] = "file"


\* C17: a failed download of one candidate does not abort the run: when
\* the run is over, every candidate that was not in the cache snapshot has
\* been attempted, also when a download of the run failed.
C17_FailureDoesNotAbort ==
    (RunOver /\ failed # {}) =>
        \A f \in feed : ~IsFile(snap_cache[f]) => f \in fetched

\* C17 for file_helper.download under the reconciler: a download() that
\* returns False is counted for its module and the other candidates of the
\* module are attempted all the same.  An exception that leaves download()
\* (os.remove of a directory) is outside this statement.
FailedDownloadContinues ==
    \A m \in DOMAIN m_log :
        m_log[m].reported =>
            /\ m_log[m].attempted = m_log[m].offered
            /\ m_log[m].n_failed = Cardinality(m_log[m].failed)

FailedDownloadContinuesReached ==
    \E m \in DOMAIN m_log :
        /\ m_log[m].reported
        /\ m_log[m].n_failed = 1
        /\ Cardinality(m_log[m].attempted) = 2
        /\ \E f \in m_log[m].attempted \ m_log[m].failed :
              cache[f] = "file" /\ ~IsFile(snap_cache[f])


\* C19: between the end of an iteration and the start of the next one
\* there is exactly one sleep of the poll interval, whether the iteration
\* completed or raised: every step that ends an iteration enters the
\* finally clause, the only step that starts a further iteration is the
\* return of its sleep, and the finally clause is left by that one sleep.
C19_OneSleepBetweenIterations ==
    [][/\ (pc \in {"loop", "dump"} /\ pc' \notin {"loop", "dump"}) =>
             pc' = "sleep"
       /\ (pc' = "loop" /\ pc # "loop") =>
             \/ pc = "start"
             \/ /\ pc = "sleep"
                /\ ~SleepRaises(globals.DUMP_INTERVAL)
                /\ pending = "none"
       /\ (pc = "sleep" /\ pc' # "sleep") => pc' \in {"loop", "terminated"}
      ]_vars

\* C19 witness: an iteration that downloaded something and then raised has
\* been followed by the sleep, and the next iteration is under way.
C19_Witness ==
    /\ pc = "dump"
    /\ ~last_ok
    /\ prev_fetched # {}


\* C18: a candidate whose download or copy failed in one run and that the
\* source offers again is treated as non-cached by the next run, which
\* attempts it again.  A candidate the previous run attempted and whose
\* dump file is not complete when this run takes its snapshot is one
\* whose download failed: the loop deletes nothing, and a download that
\* succeeds leaves the complete dump file.
C18_FailedIsRetried ==
    pc = "dump" =>
        \A f \in feed \cap prev_fetched :
            snap_dump[f] # "file" => f \notin cached_items

\* C18, the case that does hold in the loop: a candidate whose fetch
\* failed before anything was written is non-cached in the next run.
FetchFailureIsRetried ==
    pc = "dump" =>
        \A f \in feed \cap prev_fetched :
            ~Exists(snap_cache[f]) => f \notin cached_items

FetchFailureIsRetriedReached ==
    /\ pc = "dump"
    /\ \E f \in feed \cap prev_fetched \cap fetched :
          /\ ~Exists(snap_cache[f])
          /\ cache[f] = "file"
          /\ dump[f] = "file"

\* C18 for file_helper.download under the reconciler: a candidate whose
\* download() returned False has no cache file when its module is
\* reported, so the next snapshot of the cache does not hold it.
FailedDownloadLeavesNoCacheFile ==
    \A m \in DOMAIN m_log :
        m_log[m].reported =>
            \A f \in m_log[m].failed : f \notin GetFilesInCache(cache)

FailedDownloadLeavesNoCacheFileReached ==
    \E m \in DOMAIN m_log :
        /\ m_log[m].reported
        /\ \E f \in m_log[m].failed : dump[f] = "absent"


\* ------------------------------------------------------------------------
\* Properties of the validators (specification SpecValidators)
\* ------------------------------------------------------------------------

\* The value is an integer greater than 0 that is no boolean, or a string
\* of decimal digits that denotes an integer greater than 0.
PositiveInteger(val) ==
    \/ val.type = "int" /\ val.int >= 1
    \/ /\ val.type = "str"
       /\ val.text # <<>>
       /\ \A i \in 1..Len(val.text) : val.text[i] \in Digits
       /\ \E i \in 1..Len(val.text) : val.text[i] # "0"

Probed == c_pc = "probed"

\* C21: the positive-integer validator returns True exactly for a
\* non-boolean integer greater than 0 and for a string of decimal digits
\* that denotes an integer greater than 0, and the poll-interval check of
\* the startup validation accepts exactly the same values.
C21_PositiveIntegerValidators ==
    Probed =>
        /\ c_verdict.is_non_zero_int <=> PositiveInteger(c_val)
        /\ c_verdict.private_is_non_zero_int <=> c_verdict.is_non_zero_int

\* C21, the parts the code keeps: validation.is_non_zero_int is as the
\* claim has it, and on a str, which is what os.environ holds, the check
\* of the startup validation agrees with it.
PositiveIntegerOnStrings ==
    Probed =>
        /\ c_verdict.is_non_zero_int <=> PositiveInteger(c_val)
        /\ c_val.type = "str" =>
              (c_verdict.private_is_non_zero_int
                  <=> c_verdict.is_non_zero_int)

PositiveIntegerOnStringsReached ==
    /\ Probed
    /\ c_val = PyValue("str", 0, <<"0", "0", "7">>)
    /\ c_verdict.is_non_zero_int
    /\ c_verdict.private_is_non_zero_int


\* ------------------------------------------------------------------------
\* Properties of the source modules, continued (specification SpecWorker)
\* ------------------------------------------------------------------------

\* A CachyOS call on a fetched downloads page.
CachyFetched ==
    /\ w_pc = "done"
    /\ w_module = "cachyos"
    /\ ~FetchFailed(w_pages["index"])

\* The relative hrefs of the downloads page that name a .torrent file of
\* a requested edition.
CachyRelativeTorrents ==
    {a \in SeqToSet(w_pages["index"].anchors) :
        /\ a.kind = "relative"
        /\ a.torrent
        /\ (a.words \cap SeqToSet(w_config.requested_editions)) # {}}

\* C22: every candidate CachyOsWorker.dump returns is an absolute http or
\* https URL whose path ends in .torrent, keyed by the basename of that
\* path; no magnet link and no link to another kind of file is returned;
\* a relative href is returned resolved against the downloads page.
C22_AbsoluteTorrentUrls ==
    CachyFetched =>
        /\ w_result.kind = "return"
        /\ \A f \in DOMAIN w_result.value :
              LET u == w_result.value[f]
              IN /\ u.kind = "url"
                 /\ u.scheme \in {"http", "https"}
                 /\ u.host # "none"
                 /\ u.torrent
                 /\ u.file = f
        /\ \A a \in CachyRelativeTorrents :
              /\ a.file \in DOMAIN w_result.value
              /\ w_result.value[a.file] =
                    [a EXCEPT !.kind = "url", !.scheme = "https",
                              !.host = "cachyos.org"]

\* C22 witness: the page holds a magnet link and a relative href of a
\* requested edition, and the result is the resolved relative href alone.
C22_Witness ==
    /\ CachyFetched
    /\ CachyRelativeTorrents # {}
    /\ \E i \in 1..Len(w_pages["index"].anchors) :
          /\ w_pages["index"].anchors[i].kind = "url"
          /\ w_pages["index"].anchors[i].scheme = "magnet"
    /\ Cardinality(DOMAIN w_result.value) = 1


\* ------------------------------------------------------------------------
\* Properties of one call of download (specification SpecDownload)
\* ------------------------------------------------------------------------

DownloadReturned == m_pc = "returned"

\* C23: download opens its cache destination exclusively: an entry of
\* the cache directory that exists before the call is neither truncated
\* nor deleted by it, whatever the outcome.
C23_ExistingCacheFileUntouched ==
    DownloadReturned =>
        \A f \in fetched :
            Exists(snap_cache[f]) => cache[f] = snap_cache[f]

\* C23, what the call does leave alone: the entries of every other
\* filename, and a directory in the place of the cache file (open raises,
\* and so does os.remove in the except clause).
OtherEntriesUntouched ==
    DownloadReturned =>
        /\ \A f \in DOMAIN cache \ fetched :
              cache[f] = snap_cache[f] /\ dump[f] = snap_dump[f]
        /\ \A f \in fetched :
              snap_cache[f] = "dir" => (cache[f] = "dir" /\ m_log.raised)

OtherEntriesUntouchedReached ==
    /\ DownloadReturned
    /\ \E f \in fetched : snap_cache[f] = "dir"
    /\ \E f \in DOMAIN cache \ fetched : snap_cache[f] = "file"


\* ------------------------------------------------------------------------
\* Properties of the Debian module (specification SpecWorker)
\* ------------------------------------------------------------------------

\* A Debian call that returned its candidates.
DebianReturned ==
    /\ w_pc = "done"
    /\ w_module = "debian"
    /\ w_result.kind = "return"

\* The index of the pair holds a link with text f.
DebianIndexHolds(pair, f) ==
    \E i \in 1..Len(w_pages[pair].anchors) :
        /\ w_pages[pair].anchors[i].kind = "debian"
        /\ w_pages[pair].anchors[i].href = f

\* C29: every candidate URL the Debian module returns lies under the
\* index of a requested (arch, media) pair in which its link text was
\* found: it is the URL format filled with that arch, that media and the
\* link text.
C29_UrlUnderRequestedIndex ==
    DebianReturned =>
        \A f \in DOMAIN w_result.value :
            \E pair \in SeqToSet(DebianPairs(w_config)) :
                /\ DebianIndexHolds(pair, f)
                /\ w_result.value[f] = DebianTorrentUrl(pair[1], pair[2], f)

\* C29, the part the code keeps: every returned URL is the URL format
\* filled with the arch named in the link text, a requested media and the
\* link text, and the link text was found in the index of a requested pair
\* of that media.
DebianUrlOfLinkText ==
    DebianReturned =>
        \A f \in DOMAIN w_result.value :
            \E pair \in SeqToSet(DebianPairs(w_config)) :
                \E i \in 1..Len(w_pages[pair].anchors) :
                    LET a == w_pages[pair].anchors[i]
                    IN /\ a.kind = "debian"
                       /\ a.href = f
                       /\ w_result.value[f] =
                             DebianTorrentUrl(a.arch, pair[2], f)

DebianUrlOfLinkTextReached ==
    /\ DebianReturned
    /\ Len(DebianPairs(w_config)) = 2
    /\ Cardinality(DOMAIN w_result.value) = 2


\* The components of a path, split at "/".
PathComponents(f) == SeqToSet(Split(f, "/"))

\* A non-empty name without path separator or traversal component.
SafeName(f) ==
    /\ f # <<>>
    /\ \A i \in 1..Len(f) : f[i] # "/"
    /\ f \notin {<<".">>, <<".", ".">>}

ArchFilenamesSafe ==
    (w_pc = "done" /\ w_module = "arch" /\ w_result.kind = "return") =>
        \A f \in DOMAIN w_result.value :
            SafeName(f) /\ <<".", ".">> \notin PathComponents(f)

ArchFilenamesSafeReached ==
    /\ w_pc = "done"
    /\ w_module = "arch"
    /\ w_result.kind = "return"
    /\ Cardinality(DOMAIN w_result.value) = 2


\* verify_module_environments or populate_module_configurations was called.
ModulesChecked == c_pc \in {"done", "populated", "raised"}

\* C28: every name of the registry resolves to an implementation with
\* the functions of the module contract, so that
\* verify_module_environments returns a boolean for every list of
\* registered names, and when it returned True
\* populate_module_configurations stores one pair (configuration, module)
\* per requested name without raising.
C28_ModuleContract ==
    (ModulesChecked /\ RequestedSet \subseteq RegisteredNames) =>
        /\ c_modules.raised = "none"
        /\ (c_pc # "done" /\ c_modules.valid) =>
               /\ c_pc = "populated"
               /\ DOMAIN c_config.modules = RequestedSet

\* C28 for the calls of verify_module_environments that return True: then
\* populate_module_configurations does not raise and config.modules holds
\* one pair per requested name, the module being the one of that name.
PopulatedWhenVerified ==
    (c_pc \in {"populated", "raised"} /\ c_modules.valid) =>
        /\ c_pc = "populated"
        /\ DOMAIN c_config.modules = RequestedSet
        /\ \A n \in RequestedSet : c_config.modules[n].module = n

PopulatedWhenVerifiedReached ==
    /\ c_pc = "populated"
    /\ c_modules.valid
    /\ c_config.requested_modules = <<DebianName, ArchName>>
    /\ DOMAIN c_config.modules = {ArchName, DebianName}

\* generate_from_environment returned a Configuration and os.environ holds
\* a value of var that its validator accepts.
AcceptedValue(var) ==
    /\ c_pc \notin {"off", "ready", "verified"}
    /\ c_config.raised = "none"
    /\ var \in DOMAIN env
    /\ Validator(var, env[var])

\* The value denotes true, whatever the case of its letters.
DenotesTrue(val) == Lower(val) = <<"t", "r", "u", "e">>

\* C30: validation and construction of a boolean agree: for every value
\* of DUMPER_DEBUG the validator accepts, the constructed debug is True
\* exactly when the value denotes true case-insensitively.
C30_BooleanAgreement ==
    AcceptedValue("DUMPER_DEBUG") =>
        (c_config.debug <=> DenotesTrue(env["DUMPER_DEBUG"]))

\* C30 for ARCH_GET_ALL, whose validator accepts the two lower-case words
\* only: the constructed get_all is True exactly when the value denotes
\* true.
ArchGetAllAgrees ==
    (/\ c_pc = "populated"
     /\ ArchName \in DOMAIN c_config.modules
     /\ AcceptedValue("ARCH_GET_ALL")) =>
        (c_config.modules[ArchName].config.get_all
            <=> DenotesTrue(env["ARCH_GET_ALL"]))

ArchGetAllAgreesReached ==
    /\ c_pc = "populated"
    /\ ArchName \in DOMAIN c_config.modules
    /\ AcceptedValue("ARCH_GET_ALL")
    /\ c_config.modules[ArchName].config.get_all


\* C26: no network call can hang an iteration: every listing-page
\* request a module issues is passed an explicit timeout.
C26_TimeoutOnNetworkCalls ==
    \A r \in w_requests : "timeout" \in r.keywords

\* C26 for the one module that passes a timeout, cachyos.
CachyRequestsTimeout ==
    w_module = "cachyos" =>
        \A r \in w_requests : "timeout" \in r.keywords

CachyRequestsTimeoutReached ==
    /\ w_pc = "done"
    /\ w_module = "cachyos"
    /\ w_requests # {}
    /\ \A r \in w_requests : "timeout" \in r.keywords


\* The run put the cache entry of f there: there was none when the run
\* took its snapshot.
AddedToCache(f) == ~Exists(snap_cache[f]) /\ Exists(cache[f])

\* C27: at the end of every run, every filename the run added to the
\* cache directory is also present in the dump directory; a file is never
\* left in the cache without its dump copy.
C27_CachedHasDumpCopy ==
    RunOver => \A f \in DOMAIN cache : AddedToCache(f) => Exists(dump[f])

\* C27 for one call of file_helper.download: a cache entry the call
\* added is a complete file whose name is in the dump directory and the
\* call returned True, and a call that returns True leaves both entries.
DownloadKeepsDumpCopy ==
    DownloadReturned =>
        \A f \in fetched :
            /\ AddedToCache(f) =>
                   (cache[f] = "file" /\ Exists(dump[f]) /\ m_log.ret)
            /\ m_log.ret => (cache[f] = "file" /\ Exists(dump[f]))

DownloadKeepsDumpCopyReached ==
    /\ DownloadReturned
    /\ m_log.ret
    /\ \E f \in fetched :
          AddedToCache(f) /\ ~Exists(snap_dump[f]) /\ dump[f] = "file"


\* C25: within a run each filename that is not in the cache snapshot is
\* fetched at most once, also when the feed produces it more than once:
\* when the loop takes up a filename it has already fetched in this run,
\* the guard of line 143 skips it.
C25_FetchedAtMostOnce ==
    (pc = "dump" /\ feed_items # <<>> /\ Head(feed_items) \in fetched) =>
        ~NotInCache(Head(feed_items))

====
